---- MODULE Spec2Model ----
(***************************************************************************)
(* Feature pipeline of the e-commerce analytics stack: the relational      *)
(* store (customers, orders, order_items, products, precomputed_features), *)
(* the Feature Writer (analytics/update_existing_tables.py), the           *)
(* precompute job (analytics/precomputed_features.py) and the Feature      *)
(* Extractor entry point (analytics/feature_engineering.py).               *)
(*                                                                         *)
(* Every job talks to the store through one SQLAlchemy connection:         *)
(* conn.execute works on the connection's open transaction (tx),           *)
(* conn.commit makes it durable (db), and leaving the `with` block closes  *)
(* the connection, which rolls back whatever was not committed.            *)
(*                                                                         *)
(* Numeric columns (FLOAT, INT) hold exact fractions <<n, d>> in lowest     *)
(* terms, JSONB arrays hold sequences, and SQL NULL is the empty tuple,    *)
(* which is neither a fraction nor an array the statements can produce.    *)
(***************************************************************************)
EXTENDS Integers, Sequences, FiniteSets, TLC

VARIABLES db, tx, job, pc, phase, outcome, pre, runs, clock, df, started, csv, rng, seg,
          files, cd, fc

vars == <<db, tx, job, pc, phase, outcome, pre, runs, clock, df, started, csv, rng, seg,
          files, cd, fc>>

(***************************************************************************)
(* Bounds of the model.                                                    *)
(***************************************************************************)
MaxCustomers == 2
MaxOrders == 2
MaxItems == 2
MaxJobs == 2
MaxRows == 3
MaxK == 3
MaxCalls == 2

CustomerKeys == <<"u1", "u2">>
ProductIds == {"p1", "p2"}
Statuses == {"delivered", "canceled", "shipped"}
Timestamps == {0, 36}
Prices == {2}
Freights == {1}

NULL == <<>>

\* EXTRACT(DAY FROM interval): timestamps are counted in hours.
HoursPerDay == 24

(***************************************************************************)
(* Arithmetic helpers.                                                     *)
(***************************************************************************)
RECURSIVE GCD(_, _)
GCD(a, b) == IF b = 0 THEN a ELSE GCD(b, a % b)

\* The value n/d of a FLOAT column (d > 0, n >= 0), in lowest terms.
Rat(n, d) == LET g == GCD(n, d) IN <<n \div g, d \div g>>

RECURSIVE SumF(_, _)
SumF(f, S) ==
    IF S = {} THEN 0
    ELSE LET x == CHOOSE y \in S : TRUE IN f[x] + SumF(f, S \ {x})

RECURSIVE Orderings(_)
Orderings(S) ==
    IF S = {} THEN {<<>>}
    ELSE UNION {{<<x>> \o s : s \in Orderings(S \ {x})} : x \in S}

(***************************************************************************)
(* Joins of the store d.  customer_id is the index of a customers row,     *)
(* order_id the index of an orders row.                                    *)
(***************************************************************************)
KeyOfOrder(d, o) == d.customers[d.orders[o].customer_id].customer_unique_id

\* customers c JOIN orders o ON c.customer_id = o.customer_id, for key u
OrdersOf(d, u) == {o \in DOMAIN d.orders : KeyOfOrder(d, o) = u}

\* ... WHERE o.order_status = 'delivered'
DeliveredOrdersOf(d, u) ==
    {o \in OrdersOf(d, u) : d.orders[o].order_status = "delivered"}

\* ... JOIN order_items oi ON o.order_id = oi.order_id
DeliveredItemsOf(d, u) ==
    {i \in DOMAIN d.order_items : d.order_items[i].order_id \in DeliveredOrdersOf(d, u)}

KeysOf(d) == {d.customers[c].customer_unique_id : c \in DOMAIN d.customers}

HasColumn(d, table, col) == <<table, col>> \in d.columns

\* (variant: the column is dropped and added again, which empties it)
AddColumnResetting(d, table, col) ==
    [d EXCEPT !.columns = @ \cup {<<table, col>>},
              !.customers = IF table = "customers"
                            THEN [c \in DOMAIN d.customers |->
                                     [d.customers[c] EXCEPT ![col] = NULL]]
                            ELSE d.customers,
              !.orders = IF table = "orders"
                         THEN [o \in DOMAIN d.orders |-> [d.orders[o] EXCEPT ![col] = NULL]]
                         ELSE d.orders,
              !.products = IF table = "products"
                           THEN [q \in DOMAIN d.products |->
                                    [d.products[q] EXCEPT ![col] = NULL]]
                           ELSE d.products]

\* ALTER TABLE table ADD COLUMN IF NOT EXISTS col: existing rows read NULL.
AddColumn(d, table, col) == [d EXCEPT !.columns = @ \cup {<<table, col>>}]

\* (variant: the new clv is added to the stored one instead of replacing it)
UpdateCustomersAccumulating(d, col, agg) ==
    [d EXCEPT !.customers =
        [c \in DOMAIN d.customers |->
            LET row == d.customers[c]
                u == row.customer_unique_id
            IN IF u \notin DOMAIN agg THEN row
               ELSE IF col = "clv" /\ row.clv # NULL
               THEN [row EXCEPT !.clv = Rat(@[1] * agg[u][2] + agg[u][1] * @[2],
                                            @[2] * agg[u][2])]
               ELSE [row EXCEPT ![col] = agg[u]]]]

\* (variant: the UPDATE matches on customer_id, so only the first row of a
\* key receives the key's aggregate)
UpdateCustomersFirstRowOnly(d, col, agg) ==
    [d EXCEPT !.customers =
        [c \in DOMAIN d.customers |->
            IF /\ d.customers[c].customer_unique_id \in DOMAIN agg
               /\ \A b \in 1..(c - 1) :
                     d.customers[b].customer_unique_id # d.customers[c].customer_unique_id
            THEN [d.customers[c] EXCEPT ![col] = agg[d.customers[c].customer_unique_id]]
            ELSE d.customers[c]]]

\* UPDATE customers SET col = subquery.v FROM (...) subquery
\* WHERE customers.customer_unique_id = subquery.customer_unique_id
UpdateCustomers(d, col, agg) ==
    [d EXCEPT !.customers =
        [c \in DOMAIN d.customers |->
            IF d.customers[c].customer_unique_id \in DOMAIN agg
            THEN [d.customers[c] EXCEPT ![col] = agg[d.customers[c].customer_unique_id]]
            ELSE d.customers[c]]]

(***************************************************************************)
(* The subqueries of update_queries, one aggregate per customer key (or    *)
(* product, or order).  A key is in the DOMAIN of an aggregate exactly     *)
(* when the subquery's joins produce a group for it.                       *)
(***************************************************************************)
ItemValue(d) == [i \in DOMAIN d.order_items |->
                    d.order_items[i].price + d.order_items[i].freight_value]

ItemFreight(d) == [i \in DOMAIN d.order_items |-> d.order_items[i].freight_value]

KeysWithDeliveredItems(d) == {u \in KeysOf(d) : DeliveredItemsOf(d, u) # {}}

KeysWithDeliveredOrders(d) == {u \in KeysOf(d) : DeliveredOrdersOf(d, u) # {}}

KeysWithOrders(d) == {u \in KeysOf(d) : OrdersOf(d, u) # {}}

\* (variant: no filter on the order status)
ClvAllStatuses(d) ==
    [u \in {k \in KeysOf(d) : \E i \in DOMAIN d.order_items :
                                  d.order_items[i].order_id \in OrdersOf(d, k)} |->
        Rat(SumF(ItemValue(d), {i \in DOMAIN d.order_items :
                                   d.order_items[i].order_id \in OrdersOf(d, u)}), 1)]

\* SUM(oi.price + oi.freight_value) ... GROUP BY c.customer_unique_id
ClvAgg(d) ==
    [u \in KeysWithDeliveredItems(d) |->
        Rat(SumF(ItemValue(d), DeliveredItemsOf(d, u)), 1)]

\* COUNT(*) ... GROUP BY p.product_id, over delivered order items
PopularityAgg(d) ==
    LET sold(p) == {i \in DOMAIN d.order_items :
                       /\ d.order_items[i].product_id = p
                       /\ d.orders[d.order_items[i].order_id].order_status = "delivered"}
    IN [p \in {q \in DOMAIN d.products : sold(q) # {}} |-> Rat(Cardinality(sold(p)), 1)]

\* The rows of product_counts for key u: one per product bought.
PurchaseEntries(d, u) ==
    LET bought(p) == {i \in DeliveredItemsOf(d, u) : d.order_items[i].product_id = p}
    IN {[product_id |-> p, total_purchases |-> Cardinality(bought(p))] :
            p \in {q \in ProductIds : bought(q) # {}}}

\* JSONB_AGG(...) without ORDER BY: the array holds the group's rows in an
\* order the SQL engine is free to choose, so every ordering is an outcome.
PurchasesAggs(d) ==
    LET K == KeysWithDeliveredItems(d)
        All == UNION {Orderings(PurchaseEntries(d, u)) : u \in K}
    IN {f \in [K -> All] : \A u \in K : f[u] \in Orderings(PurchaseEntries(d, u))}

\* The purchase timestamps of the orders S, ascending
\* (PARTITION BY c.customer_unique_id ORDER BY o.order_purchase_timestamp).
RECURSIVE SortedTimestamps(_, _)
SortedTimestamps(d, S) ==
    IF S = {} THEN <<>>
    ELSE LET o == CHOOSE x \in S : \A y \in S :
                     d.orders[x].order_purchase_timestamp <= d.orders[y].order_purchase_timestamp
         IN <<d.orders[o].order_purchase_timestamp>> \o SortedTimestamps(d, S \ {o})

\* (variant: the gap is taken to the previous order, LAG(ts) - ts)
OrderGapsBackward(ts) ==
    [k \in 1..(Len(ts) - 1) |-> (ts[k] - ts[k + 1]) \div HoursPerDay]

\* EXTRACT(DAY FROM (LEAD(ts) OVER (...) - ts)) of every row that has a
\* successor; the last row of a partition has a NULL gap, which AVG skips.
OrderGaps(ts) == [k \in 1..(Len(ts) - 1) |-> (ts[k + 1] - ts[k]) \div HoursPerDay]

\* COALESCE(AVG(order_gap), sentinel)
AvgGap(ts, sentinel) ==
    IF Len(ts) <= 1 THEN Rat(sentinel, 1)
    ELSE Rat(SumF(OrderGaps(ts), 1..(Len(ts) - 1)), Len(ts) - 1)

AvgDaysAgg(d) ==
    [u \in KeysWithDeliveredOrders(d) |->
        AvgGap(SortedTimestamps(d, DeliveredOrdersOf(d, u)), 0)]

\* (variant: the orders are counted whatever their status)
TotalOrdersAllStatuses(d) ==
    [u \in KeysWithOrders(d) |-> Rat(Cardinality(OrdersOf(d, u)), 1)]

\* COUNT(o.order_id) over delivered orders
TotalOrdersAgg(d) ==
    [u \in KeysWithDeliveredOrders(d) |-> Rat(Cardinality(DeliveredOrdersOf(d, u)), 1)]

\* COALESCE(AVG(oi.price + oi.freight_value), 0): the average over order ITEMS
AovAgg(d) ==
    [u \in KeysWithDeliveredItems(d) |->
        Rat(SumF(ItemValue(d), DeliveredItemsOf(d, u)),
            Cardinality(DeliveredItemsOf(d, u)))]

\* COALESCE(AVG(oi.freight_value), 0)
AvgShippingAgg(d) ==
    [u \in KeysWithDeliveredItems(d) |->
        Rat(SumF(ItemFreight(d), DeliveredItemsOf(d, u)),
            Cardinality(DeliveredItemsOf(d, u)))]

\* (variant: the canceled orders are divided by the delivered orders)
ReturnRateOverDelivered(d) ==
    [u \in KeysWithDeliveredOrders(d) |->
        Rat(100 * Cardinality({o \in OrdersOf(d, u) :
                                  d.orders[o].order_status = "canceled"}),
            Cardinality(DeliveredOrdersOf(d, u)))]

\* COUNT(CASE WHEN o.order_status = 'canceled' THEN 1 END)*100.0
\*   / NULLIF(COUNT(o.order_id), 0), over all orders of the key
ReturnRateAgg(d) ==
    [u \in KeysWithOrders(d) |->
        Rat(100 * Cardinality({o \in OrdersOf(d, u) :
                                  d.orders[o].order_status = "canceled"}),
            Cardinality(OrdersOf(d, u)))]

\* SUM(oi.price * oi.order_item_id) + SUM(oi.freight_value * oi.order_item_id)
TotalOrderValueAgg(d) ==
    LET items(o) == {i \in DOMAIN d.order_items : d.order_items[i].order_id = o}
        weighted == [i \in DOMAIN d.order_items |->
                        d.order_items[i].price * d.order_items[i].order_item_id
                        + d.order_items[i].freight_value * d.order_items[i].order_item_id]
    IN [o \in {x \in DOMAIN d.orders : items(x) # {}} |->
            Rat(SumF(weighted, items(o)), 1)]

UpdateProducts(d, col, agg) ==
    [d EXCEPT !.products =
        [p \in DOMAIN d.products |->
            IF p \in DOMAIN agg THEN [d.products[p] EXCEPT ![col] = agg[p]]
            ELSE d.products[p]]]

\* (variant: the statement also rewrites the status of the orders it touches)
UpdateOrdersTouchingStatus(d, col, agg) ==
    [d EXCEPT !.orders =
        [o \in DOMAIN d.orders |->
            IF o \in DOMAIN agg
            THEN [d.orders[o] EXCEPT ![col] = agg[o], !.order_status = "delivered"]
            ELSE d.orders[o]]]

UpdateOrders(d, col, agg) ==
    [d EXCEPT !.orders =
        [o \in DOMAIN d.orders |->
            IF o \in DOMAIN agg THEN [d.orders[o] EXCEPT ![col] = agg[o]]
            ELSE d.orders[o]]]

(***************************************************************************)
(* update_queries: the statements of the Feature Writer in the order of    *)
(* the dict, and what each does to the connection's view d of the store.   *)
(* RunStatement gives the set of possible results; the empty set means the *)
(* store rejects the statement (an UPDATE of a column that does not exist).*)
(***************************************************************************)
\* (variant: the UPDATE statements come before the ALTER TABLE statements)
UpdateQueriesUpdatesFirst ==
    << "update_clv", "update_product_popularity", "update_customer_product_purchases",
       "update_avg_days_between_orders", "update_total_orders",
       "update_avg_order_value", "update_avg_shipping_cost",
       "update_estimated_return_rate", "update_total_order_value",
       "add_clv_column", "add_popularity_score", "add_customer_product_purchases",
       "add_avg_days_between_orders", "add_total_orders", "add_avg_order_value",
       "add_avg_shipping_cost", "add_estimated_return_rate",
       "add_total_order_value_column" >>

UpdateQueries ==
    << "add_clv_column", "add_popularity_score", "add_customer_product_purchases",
       "add_avg_days_between_orders", "add_total_orders", "add_avg_order_value",
       "add_avg_shipping_cost", "add_estimated_return_rate",
       "add_total_order_value_column",
       "update_clv", "update_product_popularity", "update_customer_product_purchases",
       "update_avg_days_between_orders", "update_total_orders",
       "update_avg_order_value", "update_avg_shipping_cost",
       "update_estimated_return_rate", "update_total_order_value" >>

\* The column each statement adds or sets.
TargetOf(name) ==
    CASE name \in {"add_clv_column", "update_clv"} -> <<"customers", "clv">>
      [] name \in {"add_popularity_score", "update_product_popularity"} ->
            <<"products", "popularity_score">>
      [] name \in {"add_customer_product_purchases", "update_customer_product_purchases"} ->
            <<"customers", "product_purchases">>
      [] name \in {"add_avg_days_between_orders", "update_avg_days_between_orders"} ->
            <<"customers", "avg_days_between_orders">>
      [] name \in {"add_total_orders", "update_total_orders"} ->
            <<"customers", "total_orders">>
      [] name \in {"add_avg_order_value", "update_avg_order_value"} ->
            <<"customers", "avg_order_value">>
      [] name \in {"add_avg_shipping_cost", "update_avg_shipping_cost"} ->
            <<"customers", "avg_shipping_cost">>
      [] name \in {"add_estimated_return_rate", "update_estimated_return_rate"} ->
            <<"customers", "estimated_return_rate">>
      [] name \in {"add_total_order_value_column", "update_total_order_value"} ->
            <<"orders", "total_order_value">>

IsAddColumn(name) ==
    name \in {"add_clv_column", "add_popularity_score", "add_customer_product_purchases",
              "add_avg_days_between_orders", "add_total_orders", "add_avg_order_value",
              "add_avg_shipping_cost", "add_estimated_return_rate",
              "add_total_order_value_column"}

\* The UPDATE statements, given that their column exists.
RunUpdate(name, d) ==
    CASE name = "update_clv" -> {UpdateCustomers(d, "clv", ClvAgg(d))}
      [] name = "update_product_popularity" ->
            {UpdateProducts(d, "popularity_score", PopularityAgg(d))}
      [] name = "update_customer_product_purchases" ->
            {UpdateCustomers(d, "product_purchases", f) : f \in PurchasesAggs(d)}
      [] name = "update_avg_days_between_orders" ->
            {UpdateCustomers(d, "avg_days_between_orders", AvgDaysAgg(d))}
      [] name = "update_total_orders" ->
            {UpdateCustomers(d, "total_orders", TotalOrdersAgg(d))}
      [] name = "update_avg_order_value" ->
            {UpdateCustomers(d, "avg_order_value", AovAgg(d))}
      [] name = "update_avg_shipping_cost" ->
            {UpdateCustomers(d, "avg_shipping_cost", AvgShippingAgg(d))}
      [] name = "update_estimated_return_rate" ->
            {UpdateCustomers(d, "estimated_return_rate", ReturnRateAgg(d))}
      [] name = "update_total_order_value" ->
            {UpdateOrders(d, "total_order_value", TotalOrderValueAgg(d))}

RunStatement(name, d) ==
    IF IsAddColumn(name) THEN {AddColumn(d, TargetOf(name)[1], TargetOf(name)[2])}
    ELSE IF TargetOf(name) \in d.columns THEN RunUpdate(name, d)
    ELSE {}

(***************************************************************************)
(* queries of precomputed_features.py: each INSERTs one row                *)
(* (feature_name, feature_value, computed_at) into precomputed_features.   *)
(* feature_value is jsonb_agg over the subquery's rows; the array is kept  *)
(* as the set of its elements, and the NULL that jsonb_agg gives for no    *)
(* rows as the empty set (jsonb_agg never builds an empty array).          *)
(***************************************************************************)
PrecomputeQueries ==
    << "customer_product_purchases", "top_product_popularity", "customer_top_categories" >>

CustomerProductPurchasesRows(d) ==
    UNION {{[customer_unique_id |-> u, product_id |-> e.product_id,
             total_purchases |-> e.total_purchases] : e \in PurchaseEntries(d, u)} :
           u \in KeysOf(d)}

TopProductPopularityRows(d) ==
    LET sold(p) == {i \in DOMAIN d.order_items :
                       /\ d.order_items[i].product_id = p
                       /\ d.orders[d.order_items[i].order_id].order_status = "delivered"}
    IN {[product_id |-> p, total_sales |-> Cardinality(sold(p))] :
            p \in {q \in ProductIds : sold(q) # {}}}

CustomerTopCategoriesRows(d) ==
    LET bought(u, cat) == {i \in DeliveredItemsOf(d, u) :
                              /\ d.order_items[i].product_id \in DOMAIN d.products
                              /\ d.products[d.order_items[i].product_id].product_category_name = cat}
        cats == {d.products[p].product_category_name : p \in DOMAIN d.products}
    IN {r \in {[customer_unique_id |-> u, category |-> cat,
                total_purchases |-> Cardinality(bought(u, cat))] :
                    u \in KeysOf(d), cat \in cats} : r.total_purchases > 0}

FeatureValue(name, d) ==
    CASE name = "customer_product_purchases" -> CustomerProductPurchasesRows(d)
      [] name = "top_product_popularity" -> TopProductPopularityRows(d)
      [] name = "customer_top_categories" -> CustomerTopCategoriesRows(d)

\* (variant: one row per feature name, replaced by the newer snapshot)
InsertSnapshotReplacing(name, d, now) ==
    LET row == [feature_name |-> name, feature_value |-> FeatureValue(name, d),
                computed_at |-> now]
        old == d.precomputed_features
    IN [d EXCEPT !.precomputed_features =
            IF \E k \in DOMAIN old : old[k].feature_name = name
            THEN [k \in DOMAIN old |-> IF old[k].feature_name = name THEN row ELSE old[k]]
            ELSE Append(old, row)]

\* INSERT INTO precomputed_features (...) VALUES (name, (SELECT jsonb_agg ...), NOW())
InsertSnapshot(name, d, now) ==
    [d EXCEPT !.precomputed_features =
        Append(@, [feature_name |-> name, feature_value |-> FeatureValue(name, d),
                   computed_at |-> now])]

(***************************************************************************)
(* queries of feature_engineering.py, in the order of the dict.  Seven are *)
(* SELECTs; "Average Days Between Orders" and "Total Oder Value" are       *)
(* UPDATE statements.                                                      *)
(***************************************************************************)
FeQueries ==
    << "Customer Recency (Days Since Last Purchase)", "Average Days Between Orders",
       "Customer Order Frequency", "Customer Lifetime Value (CLV)",
       "Average Order Value (AOV)", "Preferred Payment Method",
       "Average Shipping Cost", "Estimated Return Rate", "Total Oder Value" >>

FeReturnsRows(name) == name \notin {"Average Days Between Orders", "Total Oder Value"}

\* COALESCE(AVG(order_gap), 9999) over ALL orders of the key (no status filter)
FeAvgDaysAgg(d) ==
    [u \in KeysWithOrders(d) |-> AvgGap(SortedTimestamps(d, OrdersOf(d, u)), 9999)]

\* What conn.execute(text(query)) does to the connection's view of the store.
FeRunStatement(name, d) ==
    CASE name = "Average Days Between Orders" ->
            IF HasColumn(d, "customers", "avg_days_between_orders")
            THEN {UpdateCustomers(d, "avg_days_between_orders", FeAvgDaysAgg(d))}
            ELSE {}
      [] name = "Total Oder Value" ->
            IF HasColumn(d, "orders", "total_order_value")
            THEN {UpdateOrders(d, "total_order_value", TotalOrderValueAgg(d))}
            ELSE {}
      [] OTHER -> {d}

\* "Customer Order Frequency": COUNT(o.order_id) over ALL orders of the key
FeOrderFrequencyAgg(d) ==
    [u \in KeysWithOrders(d) |-> [total_orders |-> Rat(Cardinality(OrdersOf(d, u)), 1)]]

\* ... JOIN order_items oi ON o.order_id = oi.order_id, no status filter
ItemsOf(d, u) == {i \in DOMAIN d.order_items : d.order_items[i].order_id \in OrdersOf(d, u)}

ItemPrice(d) == [i \in DOMAIN d.order_items |-> d.order_items[i].price]

\* "Customer Lifetime Value (CLV)": SUM(oi.price), COUNT(DISTINCT o.order_id)
\* and AVG(oi.price) over the items of ALL orders of the key
FeClvAgg(d) ==
    [u \in {k \in KeysOf(d) : ItemsOf(d, k) # {}} |->
        [total_revenue |-> Rat(SumF(ItemPrice(d), ItemsOf(d, u)), 1),
         total_orders |-> Rat(Cardinality({d.order_items[i].order_id : i \in ItemsOf(d, u)}), 1),
         avg_order_value |-> Rat(SumF(ItemPrice(d), ItemsOf(d, u)),
                                 Cardinality(ItemsOf(d, u)))]]

\* The rows a SELECT hands to pd.DataFrame (the keys of the result; the
\* recency in days depends on NOW() and is left out).
FeResult(name, d) == [query |-> name, keys |-> KeysWithOrders(d)]

(***************************************************************************)
(* create_segmentation_dataset: SELECT ... FROM customers c gives one row  *)
(* per row of the customers table.  pandas reads a NULL as NaN; to_csv     *)
(* writes NaN as an empty field and read_csv reads it back as NaN.         *)
(***************************************************************************)
features ==
    << "clv", "total_orders", "avg_order_value",
       "avg_days_between_orders", "avg_shipping_cost", "estimated_return_rate" >>

FeatureNames == {features[j] : j \in DOMAIN features}

\* NaN is not a number: no fraction has denominator 0.
NaN == <<0, 0>>

ToFloat(v) == IF v = NULL THEN NaN ELSE v

SegmentationRow(d, c) ==
    [f \in FeatureNames \cup {"customer_unique_id"} |->
        IF f = "customer_unique_id" THEN d.customers[c].customer_unique_id
        ELSE ToFloat(d.customers[c][f])]

\* The SELECT fails unless every selected column exists.
CanSelectFeatures(d) == \A f \in FeatureNames : HasColumn(d, "customers", f)

\* The query has no ORDER BY: the rows come in an order the store chooses.
SegmentationDatasets(d) ==
    {[i \in DOMAIN q |-> SegmentationRow(d, q[i])] : q \in Orderings(DOMAIN d.customers)}

\* No segmentation_dataset.csv on disk.
NoFile == [exists |-> FALSE, rows |-> <<>>]

\* df.to_csv(..., index=False) followed by pd.read_csv(csv_path)
ToCsv(frame) == [exists |-> TRUE, rows |-> frame]

(***************************************************************************)
(* The Segmentation Engine.  rows is the DataFrame read from the CSV file, *)
(* indexed 1..Len(rows).                                                   *)
(***************************************************************************)
RECURSIVE Ascending(_)
Ascending(S) ==
    IF S = {} THEN <<>>
    ELSE LET m == CHOOSE x \in S : \A y \in S : x <= y
         IN <<m>> \o Ascending(S \ {m})

\* (variant: only the return rate is required to be present)
DropNaReturnRateOnly(rows) ==
    Ascending({i \in DOMAIN rows : rows[i].estimated_return_rate # NaN})

\* df[features].dropna(): the index labels of the rows without a NaN
DropNa(rows) ==
    Ascending({i \in DOMAIN rows : \A f \in FeatureNames : rows[i][f] # NaN})

RECURSIVE GcdOver(_, _)
GcdOver(g, S) ==
    IF S = {} THEN 0
    ELSE LET x == CHOOSE y \in S : TRUE IN GCD(g[x], GcdOver(g, S \ {x}))

RECURSIVE ProdF(_, _)
ProdF(g, S) ==
    IF S = {} THEN 1
    ELSE LET x == CHOOSE y \in S : TRUE IN g[x] * ProdF(g, S \ {x})

\* Column f of the rows X, in whole units: the values are brought to a
\* common denominator, shifted to start at 0 and divided by their common
\* divisor.  StandardScaler removes every such shift and scale of a column.
ColumnUnits(rows, X, f) ==
    LET den == ProdF([j \in DOMAIN X |-> rows[X[j]][f][2]], DOMAIN X)
        num == [j \in DOMAIN X |-> rows[X[j]][f][1] * (den \div rows[X[j]][f][2])]
        low == CHOOSE v \in {num[j] : j \in DOMAIN X} : \A j \in DOMAIN X : v <= num[j]
        off == [j \in DOMAIN X |-> num[j] - low]
        g == GcdOver(off, DOMAIN X)
    IN [j \in DOMAIN X |-> IF g = 0 THEN 0 ELSE off[j] \div g]

\* The feature matrix df[features] of the rows X: A[j][f]
FeatureMatrix(rows, X) ==
    LET col == [f \in FeatureNames |-> ColumnUnits(rows, X, f)]
    IN [j \in DOMAIN X |-> [f \in FeatureNames |-> col[f][j]]]

\* StandardScaler.fit: n^2 times the variance of every column.  A column of
\* variance 0 is left unscaled (all its standardized values are 0).
ScalerVar(A) ==
    [f \in FeatureNames |->
        Len(A) * SumF([j \in DOMAIN A |-> A[j][f] * A[j][f]], DOMAIN A)
        - SumF([j \in DOMAIN A |-> A[j][f]], DOMAIN A)
          * SumF([j \in DOMAIN A |-> A[j][f]], DOMAIN A)]

\* Squared distances in the standardized space are sums over the features
\* of (difference)^2 / variance; w[f] is 1 / variance of f, times the
\* product of all non-zero variances.  The columns of variance 0 add
\* nothing to a distance and are left out.
ScalerWeights(A) ==
    LET v == ScalerVar(A)
        varying == {f \in FeatureNames : v[f] # 0}
    IN [f \in varying |-> ProdF(v, varying \ {f})]

\* A centre is the mean sum / cnt of cnt rows.
PointCentre(A, j) == [sum |-> A[j], cnt |-> 1]

\* The origin of the standardized space: the mean of all rows.
Origin(A) ==
    [sum |-> [f \in FeatureNames |-> SumF([j \in DOMAIN A |-> A[j][f]], DOMAIN A)],
     cnt |-> Len(A)]

\* cnt^2 times the (weighted) squared distance of row j to the centre c
SqDist(A, w, j, c) ==
    SumF([f \in DOMAIN w |->
             w[f] * (c.cnt * A[j][f] - c.sum[f]) * (c.cnt * A[j][f] - c.sum[f])],
         DOMAIN w)

\* row j is strictly closer to c1 than row i is to c2
Closer(A, w, j, c1, i, c2) ==
    SqDist(A, w, j, c1) * c2.cnt * c2.cnt < SqDist(A, w, i, c2) * c1.cnt * c1.cnt

(***************************************************************************)
(* KMeans(n_clusters=k, random_state=42).fit_predict(X_scaled): k-means++  *)
(* seeding from the random stream of the seed, then Lloyd's iterations     *)
(* (one initialisation, the default n_init for k-means++).  draws is the   *)
(* stream RandomState(42) hands out, read from its start at every call.    *)
(* Clusters are numbered 1..k here; the label of cluster c is c - 1.       *)
(***************************************************************************)
\* Lloyd's loop runs at most max_iter times (the default of KMeans).
max_iter == 300

\* k-means++: the first centre is a row drawn uniformly; every further one
\* is drawn among the rows at a positive distance from the centres chosen so
\* far (a row at distance 0 has probability 0), the first row if none is.
RECURSIVE KMeansPlusPlus(_, _, _, _, _)
KMeansPlusPlus(A, w, k, draws, chosen) ==
    IF Len(chosen) = k THEN chosen
    ELSE LET cand == {j \in DOMAIN A :
                         \A i \in DOMAIN chosen :
                             SqDist(A, w, j, PointCentre(A, chosen[i])) > 0}
             pick == IF cand = {} THEN 1
                     ELSE Ascending(cand)[(draws[Len(chosen) + 1] % Cardinality(cand)) + 1]
         IN KMeansPlusPlus(A, w, k, draws, Append(chosen, pick))

\* E-step: every row goes to its closest centre, the lowest-numbered one
\* among equally close centres (np.argmin).
AssignLabels(A, w, centres) ==
    LET d == [j \in DOMAIN A |-> [c \in DOMAIN centres |-> SqDist(A, w, j, centres[c])]]
        sq == [c \in DOMAIN centres |-> centres[c].cnt * centres[c].cnt]
    IN [j \in DOMAIN A |->
           CHOOSE c \in DOMAIN centres :
               \A c2 \in DOMAIN centres :
                   /\ d[j][c] * sq[c2] <= d[j][c2] * sq[c]
                   /\ c2 < c => d[j][c] * sq[c2] < d[j][c2] * sq[c]]

\* An empty cluster takes over the row that is farthest from its own centre
\* (among the rows not taken yet); that row leaves the sum of its cluster.
RECURSIVE RelocateEmptyClusters(_, _, _, _, _, _, _)
RelocateEmptyClusters(A, w, lab, old, sums, empty, taken) ==
    IF empty = <<>> THEN sums
    ELSE LET free == DOMAIN A \ taken
             p == CHOOSE x \in free :
                     \A y \in free : ~Closer(A, w, x, old[lab[x]], y, old[lab[y]])
             moved == [sums EXCEPT
                          ![lab[p]] = [sum |-> [f \in FeatureNames |-> @.sum[f] - A[p][f]],
                                       cnt |-> @.cnt - 1],
                          ![Head(empty)] = PointCentre(A, p)]
         IN RelocateEmptyClusters(A, w, lab, old, moved, Tail(empty), taken \cup {p})

\* M-step: every centre becomes the mean of its rows; a cluster left with
\* no row after a relocation sits at the origin.
UpdateCentres(A, w, lab, old) ==
    LET members(c) == {j \in DOMAIN A : lab[j] = c}
        sums == [c \in DOMAIN old |->
                    [sum |-> [f \in FeatureNames |->
                                 SumF([j \in DOMAIN A |-> A[j][f]], members(c))],
                     cnt |-> Cardinality(members(c))]]
        empty == Ascending({c \in DOMAIN old : members(c) = {}})
        new == RelocateEmptyClusters(A, w, lab, old, sums, empty, {})
    IN [c \in DOMAIN old |-> IF new[c].cnt = 0 THEN Origin(A) ELSE new[c]]

\* The loop stops when an E-step repeats the labels of the one before, or
\* after max_iter iterations, when a last E-step labels the rows.  The
\* iteration is a function of the centres, so once the centres of E-step p
\* come back at E-step i the loop repeats with period i - p, and the centres
\* of the last E-step (number max_iter + 1) are known without iterating.
RECURSIVE Lloyd(_, _, _, _)
Lloyd(A, w, history, labels_old) ==
    LET i == Len(history)
        centres == history[i]
        labels == AssignLabels(A, w, centres)
        back == {p \in 1..(i - 1) : history[p] = centres}
    IN IF labels = labels_old \/ i = max_iter + 1 THEN labels
       ELSE IF back # {}
       THEN LET p == CHOOSE x \in back : TRUE
            IN AssignLabels(A, w, history[p + ((max_iter + 1 - p) % (i - p))])
       ELSE Lloyd(A, w, Append(history, UpdateCentres(A, w, labels, centres)), labels)

\* kmeans.fit_predict: the label (0..k-1) of every row of A
KMeansLabels(A, w, k, draws) ==
    LET seeds == KMeansPlusPlus(A, w, k, draws, <<>>)
        init == [c \in 1..k |-> PointCentre(A, seeds[c])]
        lab == Lloyd(A, w, <<init>>, [j \in DOMAIN A |-> 0])
    IN [j \in DOMAIN A |-> lab[j] - 1]

\* check_number_of_labels of the three metrics: they are defined only for
\* 2 <= number of labels <= number of rows - 1.
MetricsDefined(labels) ==
    LET n_labels == Cardinality({labels[j] : j \in DOMAIN labels})
    IN 2 <= n_labels /\ n_labels <= Len(labels) - 1

(***************************************************************************)
(* The connection.  `with engine.connect() as conn:` closes the connection *)
(* on the way out, on return and on an exception alike; closing rolls back *)
(* the open transaction, so the store keeps what was committed.            *)
(***************************************************************************)
\* (variant: closing the connection commits the open transaction)
CloseCommitsWork(committed, working) == working

Close(committed, working) == committed

\* conn.commit()
Commit(committed, working) == working

EmptyStore ==
    [customers |-> <<>>, orders |-> <<>>, order_items |-> <<>>,
     products |-> [p \in ProductIds |->
                      [product_category_name |-> IF p = "p1" THEN "toys" ELSE "unknown",
                       popularity_score |-> NULL]],
     columns |-> {}, precomputed_features |-> <<>>]

NoOutcome == [job |-> "none", result |-> "none"]

\* The files the machine-learning scripts write besides
\* segmentation_dataset.csv, and OUTPUT_DIR: `dir` says whether the directory
\* exists, `file` gives every file's content.
ForecastingQueries == << "quarterly", "weekly", "daily" >>

OutputNames ==
    {"forecasting_dataset_quarterly", "forecasting_dataset_weekly",
     "forecasting_dataset_daily", "recommendation_dataset",
     "precomputed_segmentation_results", "precomputed_segmentation_metrics"}

NoFiles == [dir |-> FALSE, file |-> [n \in OutputNames |-> NoFile]]

\* create_datasets.main has not run.
NoMain ==
    [save_to_csv |-> FALSE, datasets |-> <<>>, result |-> "none", stage |-> "none",
     written |-> {}, before |-> [files |-> NoFiles, csv |-> NoFile]]

\* No forecasting call has been made.
NoExperiment ==
    [rows |-> <<>>, test_size |-> 0, df_train |-> <<>>, df_test |-> <<>>,
     forecast_prophet |-> <<>>,
     metrics |-> [ARIMA |-> "none", Prophet |-> "none", Ensemble |-> "none"],
     result |-> "none", stage |-> "none"]

\* No DataFrame in memory.
NoFrame == [query |-> "none", keys |-> {}]

Init ==
    /\ db = EmptyStore
    /\ tx = EmptyStore
    /\ job = "idle"
    /\ pc = 0
    /\ phase = "none"
    /\ outcome = NoOutcome
    /\ pre = EmptyStore
    /\ runs = 0
    /\ clock = 0
    /\ df = NoFrame
    /\ started = 0
    /\ csv = NoFile
    /\ rng = <<>>
    /\ seg = <<>>
    /\ files = NoFiles
    /\ cd = NoMain
    /\ fc = NoExperiment

Idle == job = "idle"

\* The store is loaded (create_db, insert_data) before the pipeline runs.
Loading == Idle /\ started = 0

\* The external scheduler starts one job at a time, at most MaxJobs of them,
\* and none after a job has failed (failures are left to the operator).
Schedulable == Idle /\ started < MaxJobs /\ outcome.result # "raised"

\* The job ends: the connection is closed and the caller sees `result`.
Finish(name, result) ==
    /\ db' = Close(db, tx)
    /\ tx' = db'
    /\ job' = "idle"
    /\ pc' = 0
    /\ phase' = "none"
    /\ outcome' = [job |-> name, result |-> result]

(***************************************************************************)
(* insert_data: cleaned rows are appended to the tables (if_exists =       *)
(* "append"); the feature columns of a new row are NULL.                   *)
(***************************************************************************)
NewCustomer(u) ==
    [customer_unique_id |-> u, clv |-> NULL, product_purchases |-> NULL,
     avg_days_between_orders |-> NULL, total_orders |-> NULL, avg_order_value |-> NULL,
     avg_shipping_cost |-> NULL, estimated_return_rate |-> NULL]

Inserted(d) ==
    /\ db' = d
    /\ tx' = d
    /\ outcome' = [job |-> "insert_data", result |-> "returned"]
    /\ runs' = 0
    /\ pre' = EmptyStore
    /\ UNCHANGED <<files, cd, fc, csv, rng, seg, job, pc, phase, clock, df, started>>

\* Customer keys are interchangeable: a new row carries a key already in the
\* table or the first key not yet in it.
NextKeys(d) ==
    KeysOf(d) \cup
        {CustomerKeys[j] : j \in {k \in DOMAIN CustomerKeys :
                                    /\ CustomerKeys[k] \notin KeysOf(d)
                                    /\ \A i \in 1..(k - 1) : CustomerKeys[i] \in KeysOf(d)}}

InsertCustomer ==
    /\ Loading
    /\ Len(db.customers) < MaxCustomers
    /\ \E u \in NextKeys(db) :
        Inserted([db EXCEPT !.customers = Append(@, NewCustomer(u))])

\* Order ids are interchangeable: orders are numbered by purchase time.
NextTimestamps(d) ==
    {t \in Timestamps :
        \A o \in DOMAIN d.orders : d.orders[o].order_purchase_timestamp <= t}

InsertOrder ==
    /\ Loading
    /\ Len(db.orders) < MaxOrders
    /\ \E c \in DOMAIN db.customers, st \in Statuses, ts \in NextTimestamps(db) :
        Inserted([db EXCEPT !.orders =
            Append(@, [customer_id |-> c, order_status |-> st,
                       order_purchase_timestamp |-> ts, total_order_value |-> NULL])])

InsertOrderItem ==
    /\ Loading
    /\ Len(db.order_items) < MaxItems
    /\ \E o \in DOMAIN db.orders, p \in ProductIds, pr \in Prices, fr \in Freights :
        Inserted([db EXCEPT !.order_items =
            Append(@, [order_id |-> o,
                       order_item_id |-> 1 + Cardinality({i \in DOMAIN db.order_items :
                                                             db.order_items[i].order_id = o}),
                       product_id |-> p, price |-> pr, freight_value |-> fr])])

(***************************************************************************)
(* update_tables: one connection; for every statement of update_queries,   *)
(* conn.execute then conn.commit.  An exception (the store rejects the     *)
(* statement, or the connection is lost) is not caught: it leaves the loop *)
(* and the `with` block and reaches the caller.                            *)
(***************************************************************************)
Connect(name) ==
    /\ Schedulable
    /\ started' = started + 1
    /\ job' = name
    /\ pc' = 1
    /\ phase' = "execute"
    /\ pre' = db
    /\ tx' = db
    /\ outcome' = NoOutcome
    /\ UNCHANGED <<files, cd, fc, csv, rng, seg, db, runs, clock>>

\* engine.connect() raises: store unreachable, credentials invalid.
ConnectFails(name) ==
    /\ Schedulable
    /\ started' = started + 1
    /\ outcome' = [job |-> name, result |-> "raised"]
    /\ pre' = db
    /\ UNCHANGED <<files, cd, fc, csv, rng, seg, db, tx, job, pc, phase, runs, clock, df>>

UpdateTablesConnect == Connect("update_tables") /\ UNCHANGED df

UpdateTablesConnectFails == ConnectFails("update_tables")

UpdateTablesExecute ==
    /\ job = "update_tables"
    /\ phase = "execute"
    /\ pc <= Len(UpdateQueries)
    /\ \E r \in RunStatement(UpdateQueries[pc], tx) : tx' = r
    /\ phase' = "commit"
    /\ UNCHANGED <<files, cd, fc, csv, rng, seg, db, job, pc, outcome, pre, runs, clock, df, started>>

UpdateTablesCommit ==
    /\ job = "update_tables"
    /\ phase = "commit"
    /\ db' = Commit(db, tx)
    /\ tx' = db'
    /\ pc' = pc + 1
    /\ phase' = "execute"
    /\ UNCHANGED <<files, cd, fc, csv, rng, seg, job, outcome, pre, runs, clock, df, started>>

UpdateTablesRaise ==
    /\ job = "update_tables"
    /\ pc <= Len(UpdateQueries)
    /\ Finish("update_tables", "raised")
    /\ runs' = 0
    /\ UNCHANGED <<files, cd, fc, csv, rng, seg, pre, clock, df, started>>

UpdateTablesReturn ==
    /\ job = "update_tables"
    /\ pc = Len(UpdateQueries) + 1
    /\ Finish("update_tables", "returned")
    /\ runs' = IF runs = 0 THEN 1 ELSE 2
    /\ UNCHANGED <<files, cd, fc, csv, rng, seg, pre, clock, df, started>>

(***************************************************************************)
(* compute_precomputed_features: the same loop over the three INSERTs.     *)
(***************************************************************************)
PrecomputeConnect ==
    /\ Connect("compute_precomputed_features")
    /\ UNCHANGED df

PrecomputeConnectFails == ConnectFails("compute_precomputed_features")

PrecomputeExecute ==
    /\ job = "compute_precomputed_features"
    /\ phase = "execute"
    /\ pc <= Len(PrecomputeQueries)
    /\ tx' = InsertSnapshot(PrecomputeQueries[pc], tx, clock)
    /\ phase' = "commit"
    /\ UNCHANGED <<files, cd, fc, csv, rng, seg, db, job, pc, outcome, pre, runs, clock, df, started>>

PrecomputeCommit ==
    /\ job = "compute_precomputed_features"
    /\ phase = "commit"
    /\ db' = Commit(db, tx)
    /\ tx' = db'
    /\ pc' = pc + 1
    /\ phase' = "execute"
    /\ clock' = clock + 1
    /\ UNCHANGED <<files, cd, fc, csv, rng, seg, job, outcome, pre, runs, df, started>>

PrecomputeRaise ==
    /\ job = "compute_precomputed_features"
    /\ pc <= Len(PrecomputeQueries)
    /\ Finish("compute_precomputed_features", "raised")
    /\ UNCHANGED <<files, cd, fc, csv, rng, seg, pre, runs, clock, df, started>>

PrecomputeReturn ==
    /\ job = "compute_precomputed_features"
    /\ pc = Len(PrecomputeQueries) + 1
    /\ Finish("compute_precomputed_features", "returned")
    /\ UNCHANGED <<files, cd, fc, csv, rng, seg, pre, runs, clock, df, started>>

(***************************************************************************)
(* feature_engineering.py run as a script: for every query,                *)
(* execute_query opens a connection, executes the statement, builds a      *)
(* DataFrame from result.fetchall() and leaves the `with` block without a  *)
(* commit.  fetchall() on the result of an UPDATE raises (the result       *)
(* returns no rows), so the loop never gets past its second query.         *)
(***************************************************************************)
FeMain ==
    /\ Connect("feature_engineering")
    /\ df' = NoFrame

FeExecute ==
    /\ job = "feature_engineering"
    /\ phase = "execute"
    /\ pc <= Len(FeQueries)
    /\ \E r \in FeRunStatement(FeQueries[pc], tx) : tx' = r
    /\ phase' = "fetch"
    /\ UNCHANGED <<files, cd, fc, csv, rng, seg, db, job, pc, outcome, pre, runs, clock, df, started>>

FeFetch ==
    /\ job = "feature_engineering"
    /\ phase = "fetch"
    /\ FeReturnsRows(FeQueries[pc])
    /\ df' = FeResult(FeQueries[pc], tx)
    /\ db' = Close(db, tx)
    /\ tx' = db'
    /\ pc' = pc + 1
    /\ phase' = "execute"
    /\ UNCHANGED <<files, cd, fc, csv, rng, seg, job, outcome, pre, runs, clock, started>>

FeRaise ==
    /\ job = "feature_engineering"
    /\ pc <= Len(FeQueries)
    /\ Finish("feature_engineering", "raised")
    /\ df' = NoFrame
    /\ UNCHANGED <<files, cd, fc, csv, rng, seg, pre, runs, clock, started>>

(***************************************************************************)
(* create_datasets.py: create_segmentation_dataset reads the customers     *)
(* table and main writes the frame to segmentation_dataset.csv.            *)
(***************************************************************************)
CreateSegmentationDataset ==
    /\ Schedulable
    /\ started' = started + 1
    /\ pre' = db
    /\ IF CanSelectFeatures(db)
       THEN /\ \E frame \in SegmentationDatasets(db) : csv' = ToCsv(frame)
            /\ outcome' = [job |-> "create_segmentation_dataset", result |-> "returned"]
       ELSE /\ csv' = csv
            /\ outcome' = [job |-> "create_segmentation_dataset", result |-> "raised"]
    /\ UNCHANGED <<db, tx, job, pc, phase, runs, clock, df, rng, seg, files, cd, fc>>

(***************************************************************************)
(* segmentation.py and precomputed_segmentation.py: the file is loaded and *)
(* handed to customer_segmentation(df, k) or compute_segmentation(df, k).  *)
(* Neither function checks k or the number of rows: what fails, fails      *)
(* inside the library call that cannot go on.                              *)
(*   - StandardScaler.fit_transform raises on a frame with no row;         *)
(*   - KMeans.fit_predict raises when there are fewer rows than clusters;  *)
(*   - the metrics raise unless 2 <= number of labels <= rows - 1.         *)
(* seg is the record of the calls made so far: segment maps the index of   *)
(* every row of the returned frame to the set of labels it carries (none   *)
(* for a NaN).                                                             *)
(***************************************************************************)
\* The call fn(df, k) fails in `stage`, on the rows X that passed dropna;
\* prior is the segment column df came with.
SegRaised(fn, k, stage, X, prior) ==
    [fn |-> fn, k |-> k, result |-> "raised", stage |-> stage,
     X |-> X, segment |-> <<>>, prior |-> prior, clusters |-> <<>>]

\* The call returns a frame whose segment column is `segment`; clusters is
\* the array fit_predict gave for the rows X.
SegReturned(fn, k, X, segment, prior, clusters) ==
    [fn |-> fn, k |-> k, result |-> "returned", stage |-> "none",
     X |-> X, segment |-> segment, prior |-> prior, clusters |-> clusters]

\* (variant: random_state is not set, every call draws afresh)
ReadStreamUnseeded(stream, k, n) == [1..k -> 0..(n - 1)]

\* The stream of RandomState(42) is the same at every call; its draws are
\* fixed the first time they are read.
ReadStream(stream, k, n) ==
    IF Len(stream) >= k THEN {stream}
    ELSE {stream \o ext : ext \in [1..(k - Len(stream)) -> 0..(n - 1)]}

\* (variant: a frame without rows is passed through, with no label)
FitPredictSkippingEmpty(rows, X, k, stream) ==
    IF Len(X) = 0 THEN {<<"none", <<>>, stream>>}
    ELSE IF Len(X) < k THEN {<<"KMeans", <<>>, stream>>}
    ELSE LET A == FeatureMatrix(rows, X)
             w == ScalerWeights(A)
         IN {<<"none", KMeansLabels(A, w, k, s), s>> :
                s \in ReadStream(stream, k, Len(X))}

\* scaler.fit_transform(X); kmeans.fit_predict(X_scaled): the outcomes of the
\* two calls on the rows X, as <<stage that raised or "none", labels, stream>>
\* (StandardScaler passes a NaN on, KMeans rejects an input that holds one).
FitPredict(rows, X, k, stream) ==
    IF Len(X) = 0 THEN {<<"StandardScaler", <<>>, stream>>}
    ELSE IF \E j \in DOMAIN X, f \in FeatureNames : rows[X[j]][f] = NaN
    THEN {<<"KMeans", <<>>, stream>>}
    ELSE IF Len(X) < k THEN {<<"KMeans", <<>>, stream>>}
    ELSE LET A == FeatureMatrix(rows, X)
             w == ScalerWeights(A)
         IN {<<"none", KMeansLabels(A, w, k, s), s>> :
                s \in ReadStream(stream, k, Len(X))}

\* (variant: the labels are written to the first rows of the frame, by
\* position instead of by index label)
AssignSegmentsByPosition(rows, X, labels, old) ==
    LET index == Ascending(DOMAIN old)
    IN [i \in DOMAIN old |->
           LET pos == CHOOSE p \in DOMAIN index : index[p] = i
           IN IF pos <= Len(X) THEN {labels[pos]} ELSE old[i]]

\* (variant: a row that already carries a label keeps it)
AssignSegmentsKeepingOld(rows, X, labels, old) ==
    [i \in DOMAIN old |->
        IF old[i] # {} THEN old[i]
        ELSE {labels[j] : j \in {x \in DOMAIN X : X[x] = i}}]

\* df.loc[X.index, "segment"] = clusters: the rows of X get their label, the
\* other rows of df keep what the segment column held (NaN when df came
\* without the column: old gives no label).
AssignSegments(rows, X, labels, old) ==
    [i \in DOMAIN old |->
        IF \E x \in DOMAIN X : X[x] = i
        THEN {labels[j] : j \in {x \in DOMAIN X : X[x] = i}}
        ELSE old[i]]

\* df_clean["segment"] = clusters: df_clean holds the rows of X only, and the
\* whole column is replaced.
CleanSegments(X, labels) ==
    [i \in {X[j] : j \in DOMAIN X} |-> {labels[j] : j \in {x \in DOMAIN X : X[x] = i}}]

\* The frame read from the file: every row, no segment column.
LoadSegmentationDataset == [i \in DOMAIN csv.rows |-> {}]

\* The frames a caller can hand to the next call: the file read afresh, or
\* the frame an earlier call returned (customer_segmentation returns the very
\* frame it was given, labelled in place; compute_segmentation returns
\* df_clean).  A frame is given by the segment column over its index.
InputFrames ==
    {LoadSegmentationDataset} \cup
        {seg[m].segment : m \in {n \in DOMAIN seg : seg[n].result = "returned"}}

\* The index labels of X that are in the frame.
RowsOfFrame(X, frame) == SelectSeq(X, LAMBDA i : i \in DOMAIN frame)

\* DataFrame.to_csv(path, index=False): the file is created or truncated.
WriteCsv(old, rows) == ToCsv(rows)

\* The rows of df_seg in precomputed_segmentation_results.csv.
ResultRows(X, labels) ==
    [j \in DOMAIN X |->
        [customer_unique_id |-> csv.rows[X[j]].customer_unique_id,
         segment |-> labels[j]]]

\* pd.DataFrame([metrics]): one row, the three scores of the labelling.
MetricsRows(labels) == << [scores_of |-> labels] >>

SegmentationCall ==
    /\ Idle
    /\ csv.exists
    /\ Len(seg) < MaxCalls
    /\ UNCHANGED <<db, tx, job, pc, phase, outcome, pre, runs, clock, df, started, csv,
                   cd, fc>>

\* df.loc[X.index, "segment"] = clusters; return df, kmeans, X_scaled
CustomerSegmentation ==
    /\ SegmentationCall
    /\ UNCHANGED files
    /\ \E k \in 1..MaxK, frame \in InputFrames :
        LET X == RowsOfFrame(DropNa(csv.rows), frame)
        IN \E r \in FitPredict(csv.rows, X, k, rng) :
            /\ rng' = r[3]
            /\ seg' = Append(seg,
                      IF r[1] # "none"
                      THEN SegRaised("customer_segmentation", k, r[1], X, frame)
                      ELSE SegReturned("customer_segmentation", k, X,
                                       AssignSegments(csv.rows, X, r[2], frame),
                                       frame, r[2]))

\* precomputed_segmentation.main around compute_segmentation(df, k):
\* df_clean = df.dropna(subset=features); df_clean["segment"] = clusters;
\* the three scores; return df_clean, metrics; then the two to_csv.
ComputeSegmentation ==
    /\ SegmentationCall
    /\ \E k \in 1..MaxK, frame \in InputFrames :
        LET X == RowsOfFrame(DropNa(csv.rows), frame)
        IN \E r \in FitPredict(csv.rows, X, k, rng) :
            /\ rng' = r[3]
            /\ IF r[1] # "none"
               THEN /\ seg' = Append(seg, SegRaised("compute_segmentation", k, r[1], X, frame))
                    /\ files' = files
               ELSE IF ~MetricsDefined(r[2])
               THEN /\ seg' = Append(seg, SegRaised("compute_segmentation", k,
                                                    "silhouette_score", X, frame))
                    /\ files' = files
               ELSE /\ seg' = Append(seg, SegReturned("compute_segmentation", k, X,
                                                      CleanSegments(X, r[2]), frame, r[2]))
                    /\ files' =
                          [files EXCEPT
                              !.file["precomputed_segmentation_results"] =
                                  WriteCsv(@, ResultRows(X, r[2])),
                              !.file["precomputed_segmentation_metrics"] =
                                  WriteCsv(@, MetricsRows(r[2]))]

Next ==
    \/ InsertCustomer
    \/ InsertOrder
    \/ InsertOrderItem
    \/ UpdateTablesConnect
    \/ UpdateTablesConnectFails
    \/ UpdateTablesExecute
    \/ UpdateTablesCommit
    \/ UpdateTablesRaise
    \/ UpdateTablesReturn
    \/ PrecomputeConnect
    \/ PrecomputeConnectFails
    \/ PrecomputeExecute
    \/ PrecomputeCommit
    \/ PrecomputeRaise
    \/ PrecomputeReturn
    \/ FeMain
    \/ FeExecute
    \/ FeFetch
    \/ FeRaise

Spec == Init /\ [][Next]_vars

(***************************************************************************)
(* The pipeline in its order of use: the store is loaded, update_tables    *)
(* runs to its end, the segmentation dataset is written and the            *)
(* Segmentation Engine is called on it.                                    *)
(***************************************************************************)
PipelineNext ==
    \/ InsertCustomer
    \/ InsertOrder
    \/ InsertOrderItem
    \/ UpdateTablesConnect
    \/ UpdateTablesExecute
    \/ UpdateTablesCommit
    \/ UpdateTablesReturn
    \/ CreateSegmentationDataset
    \/ CustomerSegmentation
    \/ ComputeSegmentation

PipelineSpec == Init /\ [][PipelineNext]_vars

(***************************************************************************)
(* The Segmentation Engine on its own: the file holds any table of at most *)
(* MaxRows rows taken from FeatureVectors, in any order.                   *)
(***************************************************************************)
RowKeys == [i \in 1..MaxRows |-> "u" \o ToString(i)]

FeatureVector(clv, total_orders) ==
    [clv |-> clv, total_orders |-> total_orders, avg_order_value |-> <<3, 1>>,
     avg_days_between_orders |-> <<0, 1>>, avg_shipping_cost |-> <<1, 1>>,
     estimated_return_rate |-> <<0, 1>>]

\* Three complete rows and one without a clv.
FeatureVectors ==
    << FeatureVector(<<3, 1>>, <<1, 1>>), FeatureVector(<<15, 1>>, <<1, 1>>),
       FeatureVector(<<24, 1>>, <<2, 1>>), FeatureVector(NaN, <<1, 1>>) >>

InputTables ==
    UNION {{[i \in 1..n |->
                [f \in FeatureNames \cup {"customer_unique_id"} |->
                    IF f = "customer_unique_id" THEN RowKeys[i]
                    ELSE FeatureVectors[q[i]][f]]] :
            q \in [1..n -> DOMAIN FeatureVectors]} :
           n \in 0..MaxRows}

\* The table of the scenario: customer A (CLV 1000, 10 orders) and customer
\* B (CLV 50, 1 order), alike in the other features.
ScenarioTable ==
    << [f \in FeatureNames \cup {"customer_unique_id"} |->
           IF f = "customer_unique_id" THEN "A"
           ELSE FeatureVector(<<1000, 1>>, <<10, 1>>)[f]],
       [f \in FeatureNames \cup {"customer_unique_id"} |->
           IF f = "customer_unique_id" THEN "B"
           ELSE FeatureVector(<<50, 1>>, <<1, 1>>)[f]] >>

SegInit ==
    /\ db = EmptyStore
    /\ tx = EmptyStore
    /\ job = "idle"
    /\ pc = 0
    /\ phase = "none"
    /\ outcome = NoOutcome
    /\ pre = EmptyStore
    /\ runs = 0
    /\ clock = 0
    /\ df = NoFrame
    /\ started = 0
    /\ csv \in {ToCsv(t) : t \in InputTables \cup {ScenarioTable}}
    /\ rng = <<>>
    /\ seg = <<>>
    /\ files = NoFiles
    /\ cd = NoMain
    /\ fc = NoExperiment

SegNext ==
    \/ CustomerSegmentation
    \/ ComputeSegmentation

SegSpec == SegInit /\ [][SegNext]_vars

(***************************************************************************)
(* Vocabulary of the properties.                                           *)
(***************************************************************************)
Returned(name) == Idle /\ outcome = [job |-> name, result |-> "returned"]

Raised(name) == Idle /\ outcome = [job |-> name, result |-> "raised"]

KeyOf(c) == db.customers[c].customer_unique_id

\* The stores the first k statements of update_queries can produce from d.
RECURSIVE RunPrefix(_, _)
RunPrefix(d, k) ==
    IF k = 0 THEN {d}
    ELSE UNION {RunStatement(UpdateQueries[k], m) : m \in RunPrefix(d, k - 1)}

(***************************************************************************)
(* create_datasets.py on its own.  The three forecasting queries return    *)
(* one row per period, ds ascending, y = SUM(total_order_value) of the     *)
(* period's delivered orders: y is whatever the orders table holds, NULL   *)
(* (read as NaN) included.  A frame is modelled by its y column, row i     *)
(* being the i-th period; the values are 0 or powers of two, so that the   *)
(* logarithm (taken to base 2: the test on log values is the same in every *)
(* base) is an integer.                                                    *)
(***************************************************************************)
Frame(ys) == [i \in DOMAIN ys |-> [ds |-> i, y |-> ys[i]]]

SampleFrames ==
    { Frame(<<>>),
      Frame(<< <<4, 1>> >>),
      Frame(<< <<4, 1>>, <<0, 1>> >>),
      Frame(<< <<1, 1>>, <<1, 1>>, <<1, 1>>, <<1024, 1>> >>),
      Frame(<< <<4, 1>>, NaN >>) }

\* (df[column] <= 0).any(): a comparison with NaN is False.
HasNonPositive(frame) ==
    \E i \in DOMAIN frame : frame[i].y # NaN /\ frame[i].y[1] <= 0

RECURSIVE Log2(_)
Log2(n) == IF n <= 1 THEN 0 ELSE 1 + Log2(n \div 2)

\* np.log(df[column]): NaN stays NaN.
LogVals(frame) ==
    [i \in DOMAIN frame |-> IF frame[i].y = NaN THEN NaN ELSE <<Log2(frame[i].y[1]), 1>>]

\* The non-NaN log values, ascending.
RECURSIVE SortedLogs(_, _)
SortedLogs(log_vals, S) ==
    IF S = {} THEN <<>>
    ELSE LET i == CHOOSE j \in S : \A k \in S : log_vals[j][1] <= log_vals[k][1]
         IN <<log_vals[i][1]>> \o SortedLogs(log_vals, S \ {i})

\* 4 * Series.quantile(k/4): linear interpolation between the two order
\* statistics around position (m - 1) * k / 4; NaN values are skipped.
Quantile4(s, k) ==
    LET h == (Len(s) - 1) * k
        lo == h \div 4
        r == h % 4
    IN IF r = 0 THEN 4 * s[lo + 1]
       ELSE 4 * s[lo + 1] + r * (s[lo + 2] - s[lo + 1])

\* factor=1.5
factor == <<3, 2>>

\* (variant: rows with a non-positive value are dropped and the rest kept)
RemoveOutliersLogDropping(frame) ==
    [raised |-> FALSE,
     rows |-> SelectSeq(frame, LAMBDA row : row.y # NaN /\ row.y[1] > 0)]

\* remove_outliers_log(df, 'y').  raised: the ValueError; rows: df[mask].
\* The bounds are compared in units of 1 / (4 * factor[2]).
RemoveOutliersLog(frame) ==
    IF HasNonPositive(frame) THEN [raised |-> TRUE, rows |-> <<>>]
    ELSE LET log_vals == LogVals(frame)
             s == SortedLogs(log_vals, {i \in DOMAIN frame : log_vals[i] # NaN})
         IN IF s = <<>> THEN [raised |-> FALSE, rows |-> <<>>]
            ELSE LET Q1 == Quantile4(s, 1)
                     Q3 == Quantile4(s, 3)
                     IQR == Q3 - Q1
                     lower_bound == factor[2] * Q1 - factor[1] * IQR
                     upper_bound == factor[2] * Q3 + factor[1] * IQR
                     mask(i) == /\ log_vals[i] # NaN
                                /\ 4 * factor[2] * log_vals[i][1] >= lower_bound
                                /\ 4 * factor[2] * log_vals[i][1] <= upper_bound
                     kept == Ascending({i \in DOMAIN frame : mask(i)})
                 IN [raised |-> FALSE, rows |-> [j \in DOMAIN kept |-> frame[kept[j]]]]

\* f"forecasting_dataset_{freq}.csv"
ForecastingFile(freq) == "forecasting_dataset_" \o freq

\* main, lines 88-91, from the i-th dataset on.  st.stage names the call
\* that raised: remove_outliers_log, or to_csv when OUTPUT_DIR is missing.
RECURSIVE WriteForecasts(_, _, _)
WriteForecasts(i, datasets, st) ==
    IF i > Len(ForecastingQueries) THEN st
    ELSE LET freq == ForecastingQueries[i]
             df_clean == RemoveOutliersLog(datasets[freq])
         IN IF df_clean.raised THEN [st EXCEPT !.stage = "remove_outliers_log"]
            ELSE IF ~st.files.dir THEN [st EXCEPT !.stage = "to_csv"]
            ELSE WriteForecasts(i + 1, datasets,
                    [st EXCEPT !.files.file[ForecastingFile(freq)] =
                                   WriteCsv(@, df_clean.rows),
                               !.written = @ \cup {ForecastingFile(freq)}])

\* create_recommendation_dataset: one row per key and product bought in a
\* delivered order; no ORDER BY.
RecommendationDatasets(d) ==
    Orderings(UNION {{[customer_unique_id |-> u, product_id |-> e.product_id,
                       purchase_count |-> e.total_purchases] :
                        e \in PurchaseEntries(d, u)} : u \in KeysOf(d)})

\* The run of main that ended in `result` at `stage`.
MainRun(save, datasets, result, stage, written) ==
    [save_to_csv |-> save, datasets |-> datasets, result |-> result, stage |-> stage,
     written |-> written, before |-> [files |-> files, csv |-> csv]]

\* main(save_to_csv)
CreateDatasetsMain ==
    /\ Schedulable
    /\ started' = started + 1
    /\ pre' = db
    /\ \E save \in BOOLEAN :
        IF ~HasColumn(db, "orders", "total_order_value")
        THEN /\ files' = [files EXCEPT !.dir = @ \/ save]
             /\ csv' = csv
             /\ cd' = MainRun(save, <<>>, "raised",
                              "create_aggregated_forecasting_datasets", {})
        ELSE \E datasets \in [{ForecastingQueries[i] : i \in DOMAIN ForecastingQueries}
                                 -> SampleFrames] :
            LET st == WriteForecasts(1, datasets,
                        [files |-> [files EXCEPT !.dir = @ \/ save],
                         stage |-> "none", written |-> {}])
            IN IF st.stage # "none"
               THEN /\ files' = st.files
                    /\ csv' = csv
                    /\ cd' = MainRun(save, datasets, "raised", st.stage, st.written)
               ELSE IF ~CanSelectFeatures(db)
               THEN /\ files' = st.files
                    /\ csv' = csv
                    /\ cd' = MainRun(save, datasets, "raised",
                                     "create_segmentation_dataset", st.written)
               ELSE \E df_seg \in SegmentationDatasets(db),
                       df_recs \in RecommendationDatasets(db) :
                    /\ csv' = IF save THEN ToCsv(df_seg) ELSE csv
                    /\ files' = IF save
                                THEN [st.files EXCEPT !.file["recommendation_dataset"] =
                                                          WriteCsv(@, df_recs)]
                                ELSE st.files
                    /\ cd' = MainRun(save, datasets, "returned", "none",
                                     st.written \cup
                                        (IF save THEN {"segmentation_dataset",
                                                       "recommendation_dataset"}
                                         ELSE {}))
    /\ outcome' = [job |-> "create_datasets", result |-> cd'.result]
    /\ UNCHANGED <<db, tx, job, pc, phase, runs, clock, df, rng, seg, fc>>

\* One customer with one delivered order of one item.
LoadedStore ==
    [EmptyStore EXCEPT
        !.customers = << NewCustomer("u1") >>,
        !.orders = << [customer_id |-> 1, order_status |-> "delivered",
                       order_purchase_timestamp |-> 0, total_order_value |-> NULL] >>,
        !.order_items = << [order_id |-> 1, order_item_id |-> 1, product_id |-> "p1",
                            price |-> 2, freight_value |-> 1] >>]

\* The loaded store before update_tables, after a run of it, and with the
\* total_order_value column alone.
SampleStores ==
    {LoadedStore, AddColumn(LoadedStore, "orders", "total_order_value")}
        \cup RunPrefix(LoadedStore, Len(UpdateQueries))

DatasetsInit ==
    /\ db \in SampleStores
    /\ tx = db
    /\ job = "idle"
    /\ pc = 0
    /\ phase = "none"
    /\ outcome = NoOutcome
    /\ pre = EmptyStore
    /\ runs = 0
    /\ clock = 0
    /\ df = NoFrame
    /\ started = 0
    /\ csv = NoFile
    /\ rng = <<>>
    /\ seg = <<>>
    /\ files \in {NoFiles, [NoFiles EXCEPT !.dir = TRUE]}
    /\ cd = NoMain
    /\ fc = NoExperiment

DatasetsNext == CreateDatasetsMain

DatasetsSpec == DatasetsInit /\ [][DatasetsNext]_vars

(***************************************************************************)
(* forecasting.py on its own.  A forecasting file holds at most MaxPeriods *)
(* rows (ds, y), y a number or NaN; test_size ranges over 0..MaxTestSize.  *)
(* What SARIMAX and Prophet compute is not modelled: a fit either succeeds *)
(* or raises, and a forecast is kept as the sequence of its isna() flags   *)
(* (TRUE for NaN), one per row of the test part.                           *)
(***************************************************************************)
MaxPeriods == 3

MaxTestSize == 7

\* The rows of a file, written in ds order or not.
ForecastingInputs ==
    UNION {UNION {{Frame(ys), [i \in 1..n |-> Frame(ys)[n + 1 - i]]} :
                    ys \in [1..n -> {<<4, 1>>, NaN}]} :
           n \in 0..MaxPeriods}

\* df.sort_values("ds", inplace=True)
RECURSIVE SortByDs(_, _)
SortByDs(rows, S) ==
    IF S = {} THEN <<>>
    ELSE LET i == CHOOSE j \in S : \A k \in S : rows[j].ds <= rows[k].ds
         IN <<rows[i]>> \o SortByDs(rows, S \ {i})

\* load_forecasting_data(csv_path)
LoadForecastingData(rows) == SortByDs(rows, DOMAIN rows)

\* The position a slice bound k stands for in a frame of n rows: a negative
\* bound counts from the end, and bounds outside the frame are clipped.
SliceBound(k, n) ==
    IF k < 0 THEN (IF n + k < 0 THEN 0 ELSE n + k)
    ELSE IF k > n THEN n ELSE k

\* train_test_split_time_series(df, test_size)
TrainTestSplitTimeSeries(frame, test_size) ==
    LET n == Len(frame)
        split_point == n - test_size
    IN [df_train |-> SubSeq(frame, 1, SliceBound(split_point, n)),
        df_test |-> SubSeq(frame, SliceBound(split_point, n) + 1, n)]

\* frame["y"].isna()
IsNa(frame) == [i \in DOMAIN frame |-> frame[i].y = NaN]

\* pd.Series([np.nan] * len(df_test), index=df_test.index)
AllNaN(df_test) == [i \in DOMAIN df_test |-> TRUE]

\* A forecast the fitted model produced for every row of df_test.
Forecast(df_test) == [i \in DOMAIN df_test |-> FALSE]

\* run_prophet_forecast(df_train, df_test); fit: what model.fit does.
RunProphetForecast(df_train, df_test, fit) ==
    IF Len(SelectSeq(df_train, LAMBDA row : row.y # NaN)) < 2 THEN AllNaN(df_test)
    ELSE IF fit = "raised" THEN AllNaN(df_test)
    ELSE Forecast(df_test)

\* compute_metrics(y_true, y_pred): the sklearn metrics raise ValueError on
\* arrays without a sample and on a NaN in either array.
ComputeMetrics(y_true, y_pred) ==
    IF \/ Len(y_true) = 0
       \/ \E i \in DOMAIN y_true : y_true[i] \/ y_pred[i]
    THEN "raised" ELSE "computed"

\* An experiment that ended in `result` at `stage`.
Experiment(rows, test_size, split, prophet, metrics, result, stage) ==
    [rows |-> rows, test_size |-> test_size,
     df_train |-> split.df_train, df_test |-> split.df_test,
     forecast_prophet |-> prophet, metrics |-> metrics,
     result |-> result, stage |-> stage]

NoMetrics == [ARIMA |-> "none", Prophet |-> "none", Ensemble |-> "none"]

\* run_forecasting_experiment(csv_path, test_size)
RunForecastingExperiment ==
    /\ Schedulable
    /\ started' = started + 1
    /\ \E rows \in ForecastingInputs, test_size \in 0..MaxTestSize,
          arima_fit \in {"fitted", "raised"}, prophet_fit \in {"fitted", "raised"} :
        LET frame == LoadForecastingData(rows)
            split == TrainTestSplitTimeSeries(frame, test_size)
            y_true == IsNa(split.df_test)
            forecast_arima == Forecast(split.df_test)
            forecast_prophet == RunProphetForecast(split.df_train, split.df_test, prophet_fit)
            forecast_ensemble == [i \in DOMAIN split.df_test |->
                                     forecast_arima[i] \/ forecast_prophet[i]]
            metrics_arima == ComputeMetrics(y_true, forecast_arima)
            metrics_prophet == IF \A i \in DOMAIN forecast_prophet : forecast_prophet[i]
                               THEN "nan"
                               ELSE ComputeMetrics(y_true, forecast_prophet)
            metrics_ensemble == ComputeMetrics(y_true, forecast_ensemble)
        IN fc' =
            IF arima_fit = "raised"
            THEN Experiment(rows, test_size, split, <<>>, NoMetrics,
                            "raised", "run_arima_forecast")
            ELSE IF metrics_arima = "raised"
            THEN Experiment(rows, test_size, split, forecast_prophet, NoMetrics,
                            "raised", "metrics_arima")
            ELSE IF metrics_prophet = "raised"
            THEN Experiment(rows, test_size, split, forecast_prophet,
                            [NoMetrics EXCEPT !.ARIMA = metrics_arima],
                            "raised", "metrics_prophet")
            ELSE IF metrics_ensemble = "raised"
            THEN Experiment(rows, test_size, split, forecast_prophet,
                            [NoMetrics EXCEPT !.ARIMA = metrics_arima,
                                              !.Prophet = metrics_prophet],
                            "raised", "metrics_ensemble")
            ELSE Experiment(rows, test_size, split, forecast_prophet,
                            [ARIMA |-> metrics_arima, Prophet |-> metrics_prophet,
                             Ensemble |-> metrics_ensemble],
                            "returned", "none")
    /\ outcome' = [job |-> "run_forecasting_experiment", result |-> fc'.result]
    /\ UNCHANGED <<db, tx, job, pc, phase, pre, runs, clock, df, csv, rng, seg, files, cd>>

ForecastNext == RunForecastingExperiment

ForecastSpec == Init /\ [][ForecastNext]_vars

\* The store after the first k INSERTs of the precompute job, from d.
RECURSIVE PrecomputePrefix(_, _)
PrecomputePrefix(d, k) ==
    IF k = 0 THEN d
    ELSE LET m == PrecomputePrefix(d, k - 1)
         IN InsertSnapshot(PrecomputeQueries[k], m, Len(m.precomputed_features))

NumericFeatures ==
    {"clv", "total_orders", "avg_order_value", "avg_days_between_orders",
     "avg_shipping_cost", "estimated_return_rate"}

(***************************************************************************)
(* C1: after update_tables has run, every customer with exactly one        *)
(* delivered order has avg_days_between_orders = 9999, never 0.            *)
(* The Feature Writer's statement coalesces to 0, so this fails.           *)
(***************************************************************************)
C1_SingleOrderSentinel ==
    Returned("update_tables") =>
        \A c \in DOMAIN db.customers :
            Cardinality(DeliveredOrdersOf(db, KeyOf(c))) = 1 =>
                db.customers[c].avg_days_between_orders = <<9999, 1>>

(***************************************************************************)
(* C2 (as claimed): for every customer key with at least one delivered     *)
(* order, the persisted clv is the sum of price + freight_value over the   *)
(* items of the key's delivered orders.                                    *)
(***************************************************************************)
C2_ClvOfEveryDeliveredKey ==
    Returned("update_tables") =>
        \A c \in DOMAIN db.customers :
            DeliveredOrdersOf(db, KeyOf(c)) # {} =>
                db.customers[c].clv =
                    <<SumF(ItemValue(db), DeliveredItemsOf(db, KeyOf(c))), 1>>

(***************************************************************************)
(* C2 (amended): for every customer key with at least one item in a        *)
(* delivered order, the persisted clv is the sum of price + freight_value  *)
(* over the items of the key's delivered orders, and items of other orders *)
(* contribute nothing; a key whose delivered orders hold no item is not    *)
(* written (its clv stays NULL).                                           *)
(***************************************************************************)
C2_ClvIsDeliveredItemSum ==
    Returned("update_tables") =>
        \A c \in DOMAIN db.customers :
            IF DeliveredItemsOf(db, KeyOf(c)) # {}
            THEN db.customers[c].clv =
                    <<SumF(ItemValue(db), DeliveredItemsOf(db, KeyOf(c))), 1>>
            ELSE db.customers[c].clv = NULL

\* A key with an item in a delivered order and an item in an order that is
\* not delivered, after a run.
C2_Witness ==
    /\ Returned("update_tables")
    /\ \E c \in DOMAIN db.customers :
        /\ DeliveredItemsOf(db, KeyOf(c)) # {}
        /\ \E i \in DOMAIN db.order_items :
            /\ db.order_items[i].order_id \in OrdersOf(db, KeyOf(c))
            /\ db.orders[db.order_items[i].order_id].order_status # "delivered"

(***************************************************************************)
(* C3: for every customer with at least one delivered order, the persisted *)
(* avg_order_value is the persisted clv divided by the persisted           *)
(* total_orders (stated for the customers whose delivered orders all hold  *)
(* items).  The statement averages over order items, so this fails as soon *)
(* as a delivered order holds two items.                                   *)
(***************************************************************************)
C3_AovIsClvPerOrder ==
    Returned("update_tables") =>
        \A c \in DOMAIN db.customers :
            LET row == db.customers[c]
            IN (/\ DeliveredOrdersOf(db, KeyOf(c)) # {}
                /\ \A o \in DeliveredOrdersOf(db, KeyOf(c)) :
                        \E i \in DOMAIN db.order_items : db.order_items[i].order_id = o) =>
                    row.avg_order_value =
                        Rat(row.clv[1] * row.total_orders[2], row.clv[2] * row.total_orders[1])

(***************************************************************************)
(* C4: when statement i of an update_tables run fails, the store holds     *)
(* exactly what the statements before i committed (statement i changed no  *)
(* row), the run is over (no later statement executes, nothing is retried) *)
(* and the caller sees the failure.                                        *)
(***************************************************************************)
C4_FailedStatementAborts ==
    [][(job = "update_tables" /\ outcome'.result = "raised") =>
          /\ db' = db
          /\ db' \in RunPrefix(pre, pc - 1)
          /\ tx' = db'
          /\ job' = "idle"
          /\ pc' = 0
          /\ outcome'.job = "update_tables"]_vars

\* A run that failed on an UPDATE after update_clv was committed.
C4_Witness ==
    /\ Raised("update_tables")
    /\ \E c \in DOMAIN db.customers :
        /\ db.customers[c].clv # NULL
        /\ db.customers[c].total_orders = NULL
        /\ DeliveredOrdersOf(db, KeyOf(c)) # {}

(***************************************************************************)
(* C5 (as claimed): a failure at any point of an update_tables or          *)
(* compute_precomputed_features run leaves no change of that run committed *)
(* in the store.                                                           *)
(***************************************************************************)
C5_FailureLeavesNothingCommitted ==
    (Raised("update_tables") \/ Raised("compute_precomputed_features")) => db = pre

(***************************************************************************)
(* C5 (amended): a failure when connecting leaves the store as it was; a   *)
(* failure later in the run ends the run, and the store then holds exactly *)
(* the changes of the statements that were committed before the failure    *)
(* (a proper prefix of the run's statements), nothing of the failing       *)
(* statement or of the statements after it.                                *)
(***************************************************************************)
C5_FailureKeepsCommittedPrefix ==
    /\ Raised("update_tables") =>
          \E k \in 0..(Len(UpdateQueries) - 1) : db \in RunPrefix(pre, k)
    /\ Raised("compute_precomputed_features") =>
          \E k \in 0..(Len(PrecomputeQueries) - 1) : db = PrecomputePrefix(pre, k)

\* A precompute run that failed after its first snapshot was committed.
C5_Witness ==
    /\ Raised("compute_precomputed_features")
    /\ Len(db.precomputed_features) = Len(pre.precomputed_features) + 1
    /\ db.precomputed_features[Len(db.precomputed_features)].feature_value # {}

(***************************************************************************)
(* C6: after a run of update_tables, every customer row whose key is in    *)
(* the new aggregation of a feature holds exactly the newly computed value *)
(* (not the stored value plus the new one), every row whose key is not in  *)
(* it holds the value it had before the run, and no row is deleted.        *)
(***************************************************************************)
NumericAgg(col, d) ==
    CASE col = "clv" -> ClvAgg(d)
      [] col = "total_orders" -> TotalOrdersAgg(d)
      [] col = "avg_order_value" -> AovAgg(d)
      [] col = "avg_days_between_orders" -> AvgDaysAgg(d)
      [] col = "avg_shipping_cost" -> AvgShippingAgg(d)
      [] col = "estimated_return_rate" -> ReturnRateAgg(d)

C6_UpsertByKey ==
    Returned("update_tables") =>
        /\ DOMAIN db.customers = DOMAIN pre.customers
        /\ \A c \in DOMAIN db.customers :
            /\ KeyOf(c) = pre.customers[c].customer_unique_id
            /\ \A col \in NumericFeatures :
                IF KeyOf(c) \in DOMAIN NumericAgg(col, pre)
                THEN db.customers[c][col] = NumericAgg(col, pre)[KeyOf(c)]
                ELSE db.customers[c][col] = pre.customers[c][col]
            /\ IF KeyOf(c) \in KeysWithDeliveredItems(pre)
               THEN db.customers[c].product_purchases
                        \in Orderings(PurchaseEntries(pre, KeyOf(c)))
               ELSE db.customers[c].product_purchases = pre.customers[c].product_purchases

\* A second run over rows that already carry a clv, with one key in the
\* aggregation and one key outside it.
C6_Witness ==
    /\ Returned("update_tables")
    /\ \E c \in DOMAIN db.customers :
        pre.customers[c].clv # NULL /\ KeyOf(c) \in DOMAIN ClvAgg(pre)
    /\ \E c \in DOMAIN db.customers : KeyOf(c) \notin DOMAIN ClvAgg(pre)

(***************************************************************************)
(* C7: a run of update_tables that follows a completed run over unchanged  *)
(* data leaves every feature column of customers as the first run left    *)
(* it.  product_purchases is built by JSONB_AGG without ORDER BY, so the   *)
(* second run may store the same entries in another order.                 *)
(***************************************************************************)
C7_SecondRunChangesNothing ==
    (Returned("update_tables") /\ runs = 2) => db.customers = pre.customers

(***************************************************************************)
(* C8: every step of every job keeps the stored precomputed_features rows  *)
(* as they are (rows are only appended, so the number of snapshots per     *)
(* name never decreases), and an invocation of                             *)
(* compute_precomputed_features that returns has appended exactly one row  *)
(* per feature name.                                                       *)
(***************************************************************************)
SnapshotsNamed(d, name) ==
    {k \in DOMAIN d.precomputed_features : d.precomputed_features[k].feature_name = name}

C8_SnapshotsAppendOnly ==
    [][/\ Len(db'.precomputed_features) >= Len(db.precomputed_features)
       /\ SubSeq(db'.precomputed_features, 1, Len(db.precomputed_features))
             = db.precomputed_features
       /\ (job = "compute_precomputed_features" /\ outcome'.result = "returned") =>
             /\ Len(db'.precomputed_features) =
                    Len(pre.precomputed_features) + Len(PrecomputeQueries)
             /\ \A k \in DOMAIN PrecomputeQueries :
                    Cardinality(SnapshotsNamed(db', PrecomputeQueries[k])) =
                        Cardinality(SnapshotsNamed(pre, PrecomputeQueries[k])) + 1]_vars

\* A second invocation has returned: two snapshots per name, the older ones
\* taken by the first invocation.
C8_Witness ==
    /\ Returned("compute_precomputed_features")
    /\ Len(pre.precomputed_features) = Len(PrecomputeQueries)
    /\ \A k \in DOMAIN PrecomputeQueries :
        Cardinality(SnapshotsNamed(db, PrecomputeQueries[k])) = 2
    /\ db.precomputed_features[1].feature_value # {}

(***************************************************************************)
(* C9 (as claimed): no job changes any row or column of orders,            *)
(* order_items or products.                                                *)
(***************************************************************************)
InputColumns(d) == {x \in d.columns : x[1] \in {"orders", "order_items", "products"}}

JobRanSince == job # "idle" \/ outcome.job \notin {"none", "insert_data"}

C10_OnlyWriterChangesFeatures ==
    [][job # "update_tables" =>
          /\ \A c \in DOMAIN db.customers :
                \A col \in NumericFeatures :
                    db'.customers[c][col] = db.customers[c][col]
          /\ {x \in db'.columns : x[1] = "customers"} =
             {x \in db.columns : x[1] = "customers"}]_vars

\* The script has executed its UPDATE of avg_days_between_orders on its
\* connection, where it changed a row, and has not yet left execute_query.
C10_Witness ==
    /\ job = "feature_engineering"
    /\ phase = "fetch"
    /\ FeQueries[pc] = "Average Days Between Orders"
    /\ \E c \in DOMAIN db.customers :
        tx.customers[c].avg_days_between_orders # db.customers[c].avg_days_between_orders

(***************************************************************************)
(* Vocabulary of the segmentation properties.                              *)
(***************************************************************************)
\* The rows of the file that hold all six features.
CompleteRows == {i \in DOMAIN csv.rows : \A f \in FeatureNames : csv.rows[i][f] # NaN}

FeatureVectorOf(i) == [f \in FeatureNames |-> csv.rows[i][f]]

\* The number of distinct complete feature rows of the file.
DistinctCompleteRows == Cardinality({FeatureVectorOf(i) : i \in CompleteRows})

\* The clusters of a call that hold at least one row.
NonEmptyClusters(call) == UNION {call.segment[i] : i \in DOMAIN call.segment}

(***************************************************************************)
(* C11: after update_tables and create_segmentation_dataset, no two rows   *)
(* of the segmentation dataset share a customer_unique_id.  The dataset    *)
(* has one row per row of customers (per customer_id), so a key carried by *)
(* two customers rows appears twice.                                       *)
(***************************************************************************)
C11_OneRowPerKey ==
    (runs >= 1 /\ csv.exists) =>
        \A i, j \in DOMAIN csv.rows :
            csv.rows[i].customer_unique_id = csv.rows[j].customer_unique_id => i = j

(***************************************************************************)
(* C12: a call with k greater than the number of distinct complete feature *)
(* rows is rejected with an error, and a call that returns has k non-empty *)
(* clusters.  Neither function checks k against the rows: KMeans raises    *)
(* only when there are fewer rows than clusters, so with two equal rows    *)
(* and k = 2 customer_segmentation returns a labelling with one cluster.   *)
(***************************************************************************)
C12_TooManyClustersRejected ==
    \A n \in DOMAIN seg :
        /\ seg[n].k > DistinctCompleteRows => seg[n].result = "raised"
        /\ seg[n].result = "returned" =>
              Cardinality(NonEmptyClusters(seg[n])) = seg[n].k

(***************************************************************************)
(* C13: when no row of the file holds all six features (the missing-value  *)
(* filter drops every row), customer_segmentation and compute_segmentation *)
(* raise and hand back no frame: nothing is labelled.                      *)
(***************************************************************************)
C13_AllRowsDroppedFails ==
    \A n \in DOMAIN seg :
        CompleteRows = {} =>
            /\ seg[n].result = "raised"
            /\ seg[n].X = <<>>
            /\ DOMAIN seg[n].segment = {}

\* Both functions were called on a file of two rows, each without a clv.
C13_Witness ==
    /\ Len(csv.rows) = 2
    /\ CompleteRows = {}
    /\ Len(seg) = 2
    /\ seg[1].fn = "customer_segmentation"
    /\ seg[2].fn = "compute_segmentation"
    /\ seg[2].k = 1

(***************************************************************************)
(* C14: a call that returns labels a row if and only if the row holds all  *)
(* six features: a row with a missing value carries no label (it is a NaN  *)
(* in the frame of customer_segmentation and absent from the frame of      *)
(* compute_segmentation), a complete row carries exactly one label, in     *)
(* 0..k-1.                                                                 *)
(***************************************************************************)
C14_LabelledIffComplete ==
    \A n \in DOMAIN seg :
        seg[n].result = "returned" =>
            /\ DOMAIN seg[n].segment =
                  IF seg[n].fn = "customer_segmentation" THEN DOMAIN seg[n].prior
                  ELSE CompleteRows \cap DOMAIN seg[n].prior
            /\ \A i \in DOMAIN seg[n].segment :
                  IF i \in CompleteRows
                  THEN \E l \in 0..(seg[n].k - 1) : seg[n].segment[i] = {l}
                  ELSE seg[n].segment[i] = {}

\* customer_segmentation returned two clusters on a file whose first row
\* has no clv.
C14_Witness ==
    /\ Len(csv.rows) = 3
    /\ CompleteRows = {2, 3}
    /\ Len(seg) >= 1
    /\ seg[1].fn = "customer_segmentation"
    /\ seg[1].result = "returned"
    /\ NonEmptyClusters(seg[1]) = {0, 1}

(***************************************************************************)
(* C15: for every customer with zero delivered orders the persisted clv,   *)
(* total_orders and avg_order_value are all three NULL or all three zero,  *)
(* and no row of such a customer is among the rows handed to the scaler    *)
(* and KMeans with a NaN in a feature (dropna removes the row).            *)
(***************************************************************************)
C15_NoDeliveredOrdersUniform ==
    /\ \A c \in DOMAIN db.customers :
          DeliveredOrdersOf(db, KeyOf(c)) = {} =>
              LET r == db.customers[c]
              IN \/ r.clv = NULL /\ r.total_orders = NULL /\ r.avg_order_value = NULL
                 \/ r.clv = <<0, 1>> /\ r.total_orders = <<0, 1>>
                       /\ r.avg_order_value = <<0, 1>>
    /\ \A n \in DOMAIN seg :
          \A j \in DOMAIN seg[n].X :
              LET row == csv.rows[seg[n].X[j]]
              IN DeliveredOrdersOf(db, row.customer_unique_id) = {} =>
                     \A f \in FeatureNames : row[f] # NaN

\* A call returned after clustering one customer, on a file that also holds
\* the row of a customer whose only order is canceled: that row has a return
\* rate and no clv, and is not among the clustered rows.
C15_Witness ==
    /\ Len(seg) >= 1
    /\ seg[1].result = "returned"
    /\ Len(seg[1].X) = 1
    /\ \E i \in DOMAIN csv.rows :
          /\ DeliveredOrdersOf(db, csv.rows[i].customer_unique_id) = {}
          /\ csv.rows[i].estimated_return_rate = <<100, 1>>
          /\ csv.rows[i].clv = NaN
          /\ \A j \in DOMAIN seg[1].X : seg[1].X[j] # i

(***************************************************************************)
(* C16: after update_tables, clv, total_orders, avg_order_value,           *)
(* avg_shipping_cost and avg_days_between_orders of every customer are     *)
(* computed from the delivered orders of the key and their items alone     *)
(* (NULL when there is none), while estimated_return_rate is present as    *)
(* soon as the key has an order of any status, and its denominator is the  *)
(* number of all the orders.  A customer whose only order is canceled has  *)
(* no clv and a return rate of 100.                                        *)
(***************************************************************************)
C16_OnlyDeliveredContribute ==
    Returned("update_tables") =>
        \A c \in DOMAIN db.customers :
            LET r == db.customers[c]
                orders == OrdersOf(db, KeyOf(c))
                delivered == {o \in orders : db.orders[o].order_status = "delivered"}
                items == {i \in DOMAIN db.order_items :
                             db.order_items[i].order_id \in delivered}
                value == SumF([i \in DOMAIN db.order_items |->
                                  db.order_items[i].price
                                  + db.order_items[i].freight_value], items)
                freight == SumF([i \in DOMAIN db.order_items |->
                                    db.order_items[i].freight_value], items)
            IN /\ r.total_orders =
                     IF delivered = {} THEN NULL ELSE <<Cardinality(delivered), 1>>
               /\ r.clv = IF items = {} THEN NULL ELSE <<value, 1>>
               /\ r.avg_order_value =
                     IF items = {} THEN NULL ELSE Rat(value, Cardinality(items))
               /\ r.avg_shipping_cost =
                     IF items = {} THEN NULL ELSE Rat(freight, Cardinality(items))
               /\ r.avg_days_between_orders =
                     IF delivered = {} THEN NULL
                     ELSE AvgGap(SortedTimestamps(db, delivered), 0)
               /\ (r.estimated_return_rate = NULL) <=> (orders = {})
               /\ (\E o \in orders : db.orders[o].order_status # "canceled")
                     => r.estimated_return_rate[1] < 100 * r.estimated_return_rate[2]
               /\ (orders # {} /\ \A o \in orders : db.orders[o].order_status = "canceled")
                     => /\ r.clv = NULL
                        /\ r.estimated_return_rate = <<100, 1>>

\* update_tables returned on a store where the only order of a customer is
\* canceled and holds an item.
C16_Witness ==
    /\ Returned("update_tables")
    /\ \E c \in DOMAIN db.customers :
          /\ Cardinality(OrdersOf(db, KeyOf(c))) = 1
          /\ \A o \in OrdersOf(db, KeyOf(c)) :
                /\ db.orders[o].order_status = "canceled"
                /\ \E i \in DOMAIN db.order_items : db.order_items[i].order_id = o
          /\ db.customers[c].clv = NULL
          /\ db.customers[c].estimated_return_rate = <<100, 1>>

(***************************************************************************)
(* C17: after update_tables, the estimated_return_rate of every customer   *)
(* with at least one order is 100 times the number of the canceled orders  *)
(* of the key over the number of all its orders, whatever their status.    *)
(***************************************************************************)
C17_ReturnRateOverAllOrders ==
    Returned("update_tables") =>
        \A c \in DOMAIN db.customers :
            LET all == OrdersOf(db, KeyOf(c))
                canceled == {o \in all : db.orders[o].order_status = "canceled"}
                rate == db.customers[c].estimated_return_rate
            IN all # {} =>
                  /\ rate # NULL
                  /\ rate[2] > 0
                  /\ rate[1] * Cardinality(all) = 100 * Cardinality(canceled) * rate[2]

\* A customer with one canceled and one shipped order, and none delivered,
\* has a return rate of 50.
C17_Witness ==
    /\ Returned("update_tables")
    /\ \E c \in DOMAIN db.customers :
          /\ {db.orders[o].order_status : o \in OrdersOf(db, KeyOf(c))}
                = {"canceled", "shipped"}
          /\ db.customers[c].estimated_return_rate = <<50, 1>>

(***************************************************************************)
(* C18: in every state, every non-NULL clv, avg_order_value,               *)
(* avg_shipping_cost and avg_days_between_orders of the customers table is *)
(* at least 0 and every non-NULL estimated_return_rate lies in [0, 100]    *)
(* (the prices and freight values of the store are non-negative).          *)
(***************************************************************************)
C18_FeaturesInRange ==
    \A c \in DOMAIN db.customers :
        LET r == db.customers[c]
        IN /\ \A f \in {"clv", "avg_order_value", "avg_shipping_cost",
                         "avg_days_between_orders", "estimated_return_rate"} :
                 r[f] # NULL => r[f][2] > 0 /\ r[f][1] >= 0
           /\ r.estimated_return_rate # NULL =>
                 r.estimated_return_rate[1] <= 100 * r.estimated_return_rate[2]

\* update_tables returned; a customer has two delivered orders a day and a
\* half apart, at least one of them with an item, and no canceled order.
C18_Witness ==
    /\ Returned("update_tables")
    /\ \E c \in DOMAIN db.customers :
          /\ db.customers[c].avg_days_between_orders = <<1, 1>>
          /\ db.customers[c].clv # NULL
          /\ db.customers[c].avg_shipping_cost # NULL
          /\ db.customers[c].estimated_return_rate = <<0, 1>>

(***************************************************************************)
(* C19: after update_tables, the total_order_value of every order that has *)
(* items is the sum of price + freight_value over its items.  The          *)
(* statement multiplies both terms by order_item_id, the position of the   *)
(* item in its order, so the second item of an order counts twice.         *)
(***************************************************************************)
C19_RevenueIsItemSum ==
    Returned("update_tables") =>
        \A o \in DOMAIN db.orders :
            LET items == {i \in DOMAIN db.order_items : db.order_items[i].order_id = o}
            IN items # {} =>
                  db.orders[o].total_order_value =
                      <<SumF([i \in DOMAIN db.order_items |->
                                 db.order_items[i].price
                                 + db.order_items[i].freight_value], items), 1>>

C21_ScenarioSeparatesAB ==
    csv.rows = ScenarioTable =>
        \A n \in DOMAIN seg :
            seg[n].k = 2 =>
                /\ seg[n].result = "returned"
                /\ seg[n].segment[1] # seg[n].segment[2]

C23_SchemaEvolutionIdempotent ==
    (/\ job = "update_tables"
     /\ phase = "execute"
     /\ pc <= Len(UpdateQueries)
     /\ IsAddColumn(UpdateQueries[pc])) =>
        LET name == UpdateQueries[pc]
            once == RunStatement(name, tx)
        IN /\ once # {}
           /\ \A r \in once :
                 /\ r = [tx EXCEPT !.columns = @ \cup {TargetOf(name)}]
                 /\ RunStatement(name, r) = {r}

\* A second run of update_tables is about to execute add_clv_column on a
\* store whose clv column exists and holds a value.
C23_Witness ==
    /\ job = "update_tables"
    /\ runs >= 1
    /\ phase = "execute"
    /\ pc = 1
    /\ HasColumn(tx, "customers", "clv")
    /\ \E c \in DOMAIN tx.customers : tx.customers[c].clv # NULL

(***************************************************************************)
(* C24: a value <= 0 in a forecasting dataset is fatal.  For every run of  *)
(* create_datasets.main that got its three datasets, if the i-th dataset   *)
(* holds a non-positive y then remove_outliers_log raises on it and        *)
(* returns no rows, main ends with the exception, and no file is written   *)
(* for that dataset nor for any later one (the later forecasting datasets, *)
(* the segmentation dataset, the recommendation dataset): those files are  *)
(* as they were before the run.                                            *)
(***************************************************************************)
C24_NonPositiveIsFatal ==
    (/\ outcome.job = "create_datasets"
     /\ cd.stage # "create_aggregated_forecasting_datasets") =>
        \A i \in DOMAIN ForecastingQueries :
            HasNonPositive(cd.datasets[ForecastingQueries[i]]) =>
                /\ RemoveOutliersLog(cd.datasets[ForecastingQueries[i]])
                       = [raised |-> TRUE, rows |-> <<>>]
                /\ cd.result = "raised"
                /\ \A j \in i..Len(ForecastingQueries) :
                      LET name == ForecastingFile(ForecastingQueries[j])
                      IN /\ name \notin cd.written
                         /\ files.file[name] = cd.before.files.file[name]
                /\ cd.written \cap {"segmentation_dataset", "recommendation_dataset"} = {}
                /\ csv = cd.before.csv
                /\ files.file["recommendation_dataset"]
                       = cd.before.files.file["recommendation_dataset"]

\* The quarterly dataset was cleaned and written, the weekly one holds a
\* zero and ended the run.
C24_Witness ==
    /\ outcome = [job |-> "create_datasets", result |-> "raised"]
    /\ cd.stage = "remove_outliers_log"
    /\ ~HasNonPositive(cd.datasets["quarterly"])
    /\ HasNonPositive(cd.datasets["weekly"])
    /\ cd.written = {"forecasting_dataset_quarterly"}
    /\ files.file["forecasting_dataset_quarterly"].exists
    /\ ~files.file["forecasting_dataset_weekly"].exists

(***************************************************************************)
(* C28: main(save_to_csv=False) writes no file: after such a run no file   *)
(* was written and every output file is as it was before the run.          *)
(* Line 91 writes the cleaned forecasting datasets whatever the flag says, *)
(* so this fails whenever the output directory exists.                     *)
(***************************************************************************)
C28_NoSaveWritesNothing ==
    (outcome.job = "create_datasets" /\ ~cd.save_to_csv) =>
        /\ cd.written = {}
        /\ files = cd.before.files
        /\ csv = cd.before.csv

(***************************************************************************)
(* C25: within a run of update_tables, whenever an UPDATE statement is     *)
(* about to be executed, the ADD COLUMN IF NOT EXISTS statement for the    *)
(* column it sets comes earlier in the run, that column is in the          *)
(* committed schema, and the store accepts the UPDATE: no run fails on a   *)
(* missing column, whatever the schema was when the run began.             *)
(***************************************************************************)
C25_UpdateAfterCommittedAdd ==
    (/\ job = "update_tables" /\ phase = "execute"
     /\ pc <= Len(UpdateQueries) /\ ~IsAddColumn(UpdateQueries[pc])) =>
        /\ \E k \in 1..(pc - 1) :
              /\ IsAddColumn(UpdateQueries[k])
              /\ TargetOf(UpdateQueries[k]) = TargetOf(UpdateQueries[pc])
        /\ TargetOf(UpdateQueries[pc]) \in db.columns
        /\ RunStatement(UpdateQueries[pc], tx) # {}

\* A run that began on a schema without any feature column is about to
\* execute its last UPDATE, with a customer and an order in the store.
C25_Witness ==
    /\ job = "update_tables" /\ phase = "execute"
    /\ pre.columns = {}
    /\ pc = Len(UpdateQueries)
    /\ db.customers # <<>> /\ db.orders # <<>>

(***************************************************************************)
(* C26: after update_tables has returned, any two rows of customers with   *)
(* the same customer_unique_id hold the same value in each of the seven    *)
(* feature columns.                                                        *)
(***************************************************************************)
C26_SameKeySameFeatures ==
    Returned("update_tables") =>
        \A a, b \in DOMAIN db.customers :
            KeyOf(a) = KeyOf(b) =>
                \A f \in NumericFeatures \cup {"product_purchases"} :
                    db.customers[a][f] = db.customers[b][f]

\* Two rows share a key whose delivered order has an item: both carry the
\* key's clv and purchases.
C26_Witness ==
    /\ Returned("update_tables")
    /\ \E a, b \in DOMAIN db.customers :
          /\ a # b
          /\ KeyOf(a) = KeyOf(b)
          /\ db.customers[a].clv # NULL
          /\ db.customers[a].product_purchases # NULL
          /\ db.customers[b].total_orders # NULL

(***************************************************************************)
(* C27: the Feature Extractor and the Feature Writer agree.  Once          *)
(* update_tables has returned, the total_revenue and total_orders that     *)
(* feature_engineering's "Customer Lifetime Value (CLV)" query gives for a *)
(* key on the store, and the total_orders of its "Customer Order           *)
(* Frequency" query, equal the clv and total_orders stored in the key's    *)
(* customers rows (no row for the key on one side meaning NULL on the      *)
(* other).                                                                 *)
(* The extractor sums oi.price over the orders of every status; the writer *)
(* sums oi.price + oi.freight_value over delivered orders: this fails.     *)
(***************************************************************************)
C27_ExtractorMatchesWriter ==
    Returned("update_tables") =>
        \A c \in DOMAIN db.customers :
            LET Extracted(agg, col) == IF KeyOf(c) \in DOMAIN agg
                                       THEN agg[KeyOf(c)][col] ELSE NULL
            IN /\ Extracted(FeClvAgg(db), "total_revenue") = db.customers[c].clv
               /\ Extracted(FeClvAgg(db), "total_orders") = db.customers[c].total_orders
               /\ Extracted(FeOrderFrequencyAgg(db), "total_orders")
                      = db.customers[c].total_orders

(***************************************************************************)
(* C29: train_test_split_time_series splits the n rows of the loaded frame *)
(* into a train part followed by a test part (every row once, in the       *)
(* original order), the test part being the last min(test_size, n) rows.   *)
(* split_point = n - test_size is negative when test_size > n, and iloc    *)
(* reads a negative bound from the end: for n < test_size < 2n the test    *)
(* part has 2n - test_size rows, not n.                                    *)
(***************************************************************************)
C29_TestIsLastRows ==
    fc.result # "none" =>
        LET frame == LoadForecastingData(fc.rows)
            n == Len(frame)
            m == IF fc.test_size < n THEN fc.test_size ELSE n
        IN /\ fc.df_train \o fc.df_test = frame
           /\ fc.df_test = SubSeq(frame, n - m + 1, n)

(***************************************************************************)
(* C30: an experiment in which ARIMA was fitted and Prophet could not be   *)
(* (its forecast is all NaN, on a test part with at least one row and no   *)
(* missing y) returns, with the ARIMA metrics computed and the Prophet     *)
(* metrics missing.                                                        *)
(* The ensemble of a number and NaN is NaN, and compute_metrics on the     *)
(* ensemble (line 77) is not guarded as the Prophet metrics are: it raises.*)
(***************************************************************************)
C30_ExperimentSurvivesProphet ==
    (/\ fc.result # "none"
     /\ fc.stage # "run_arima_forecast"
     /\ fc.df_test # <<>>
     /\ \A i \in DOMAIN fc.df_test : fc.df_test[i].y # NaN
     /\ fc.forecast_prophet = AllNaN(fc.df_test)) =>
        /\ fc.result = "returned"
        /\ fc.metrics.ARIMA = "computed"
        /\ fc.metrics.Prophet = "nan"

=============================================================================
